---- MODULE Spec2Model ----
(***************************************************************************)
(* RaceDayAI ETL pipeline (research/notebooks/run_etl.py).                 *)
(*                                                                         *)
(* Cells of a table are either NaN (a missing value) or a one-element      *)
(* tuple <<v>> holding the value.  Text is a sequence of one-character     *)
(* strings so that strip / lower / upper / split can be computed as the    *)
(* code computes them.                                                     *)
(***************************************************************************)
EXTENDS Integers, Sequences, FiniteSets, TLC

VARIABLES
    series,     \* hms_to_sec: the input column
    secs,       \* hms_to_sec: the returned column ("pending" before the call)
    triple,     \* hash_athletes: the (names, countries, genders) columns
    hashes,     \* hash_athletes: the returned column
    df,         \* quality_filter: the input table
    out,        \* quality_filter: the returned table
    scraped,    \* pipeline: the raw files under data/scraped, per source
    pc,         \* pipeline: position of main()
    sources,    \* pipeline: main()'s list of processor results
    fact,       \* pipeline: data/cleaned/athlete_race.csv (Absent before written)
    cohort,     \* pipeline: data/cleaned/cohort_stats.csv and combine's return value
    profile,    \* pipeline: data/cleaned/athlete_profile.csv
    error,      \* pipeline: the exception that ended main(), or NoError
    history     \* pipeline: data/cleaned and the way main() ended, per run started

vars == <<series, secs, triple, hashes, df, out,
          scraped, pc, sources, fact, cohort, profile, error, history>>

utilVars == <<series, secs, triple, hashes, df, out>>
pipeVars == <<scraped, pc, sources, fact, cohort, profile, error, history>>

(***************************************************************************)
(* Cells and text                                                          *)
(***************************************************************************)
NaN == <<>>
Cell(v) == <<v>>
notna(c) == c # NaN
isna(c) == c = NaN
Val(c) == c[1]

Pending == <<"pending">>

LowerChars == <<"a","b","c","d","e","f","g","h","i","j","k","l","m",
                "n","o","p","q","r","s","t","u","v","w","x","y","z">>
UpperChars == <<"A","B","C","D","E","F","G","H","I","J","K","L","M",
                "N","O","P","Q","R","S","T","U","V","W","X","Y","Z">>
DigitChars == <<"0","1","2","3","4","5","6","7","8","9">>
Whitespace == {" "}

IndexOf(ch, chars) == CHOOSE i \in 1..Len(chars) : chars[i] = ch
InSeq(ch, chars) == \E i \in 1..Len(chars) : chars[i] = ch

\* str.lower / str.upper, one character
lower_ch(ch) == IF InSeq(ch, UpperChars) THEN LowerChars[IndexOf(ch, UpperChars)] ELSE ch
upper_ch(ch) == IF InSeq(ch, LowerChars) THEN UpperChars[IndexOf(ch, LowerChars)] ELSE ch

\* the sequence f as a tuple, each element evaluated once
list(f) == f \o <<>>

lower(s) == list([i \in 1..Len(s) |-> lower_ch(s[i])])
upper(s) == list([i \in 1..Len(s) |-> upper_ch(s[i])])

RECURSIVE lstrip(_)
lstrip(s) == IF s # <<>> /\ Head(s) \in Whitespace THEN lstrip(Tail(s)) ELSE s
RECURSIVE rstrip(_)
rstrip(s) == IF s # <<>> /\ s[Len(s)] \in Whitespace
             THEN rstrip(SubSeq(s, 1, Len(s) - 1)) ELSE s
\* str.strip()
strip(s) == rstrip(lstrip(s))

\* str.count(ch)
count_ch(s, ch) == Cardinality({i \in 1..Len(s) : s[i] = ch})

\* str.split(ch): the parts between the separators, empty parts included
RECURSIVE split(_, _)
split(s, ch) ==
    IF \A i \in 1..Len(s) : s[i] # ch THEN <<s>>
    ELSE LET k == CHOOSE i \in 1..Len(s) : s[i] = ch /\ \A j \in 1..(i-1) : s[j] # ch
         IN <<SubSeq(s, 1, k - 1)>> \o split(SubSeq(s, k + 1, Len(s)), ch)

\* Series.astype(str): a missing value becomes the text 'nan'
astype_str(c) == IF isna(c) THEN <<"n","a","n">> ELSE Val(c)

RECURSIVE digits_value(_)
digits_value(s) == IF s = <<>> THEN 0
                   ELSE 10 * digits_value(SubSeq(s, 1, Len(s) - 1))
                        + (IndexOf(s[Len(s)], DigitChars) - 1)

all_digits(s) == s # <<>> /\ \A i \in 1..Len(s) : InSeq(s[i], DigitChars)

\* [+-]digits with optional surrounding whitespace
is_integer_text(part) ==
    LET t == strip(part)
    IN \/ all_digits(t)
       \/ t # <<>> /\ Head(t) \in {"+", "-"} /\ all_digits(Tail(t))

\* mutant of to_numeric: a failed parse is filled with 0 instead of NaN
to_numeric_fill0(part) ==
    LET t == strip(part)
    IN IF all_digits(t) THEN <<digits_value(t)>>
       ELSE IF t # <<>> /\ Head(t) = "-" /\ all_digits(Tail(t))
            THEN <<0 - digits_value(Tail(t))>>
       ELSE IF t # <<>> /\ Head(t) = "+" /\ all_digits(Tail(t))
            THEN <<digits_value(Tail(t))>>
       ELSE <<0>>

\* pd.to_numeric(text, errors='coerce') for integer text: surrounding
\* whitespace and one leading sign are accepted, anything else is coerced to NaN
to_numeric(part) ==
    LET t == strip(part)
    IN IF all_digits(t) THEN Cell(digits_value(t))
       ELSE IF t # <<>> /\ Head(t) = "-" /\ all_digits(Tail(t))
            THEN Cell(0 - digits_value(Tail(t)))
       ELSE IF t # <<>> /\ Head(t) = "+" /\ all_digits(Tail(t))
            THEN Cell(digits_value(Tail(t)))
       ELSE NaN

(***************************************************************************)
(* hms_to_sec                                                              *)
(***************************************************************************)
bad_tokens == { <<>>,
                <<"0",":","0","0">>, <<"0","0",":","0","0">>,
                <<"0",":","0","0",":","0","0">>,
                <<"0","0",":","0","0",":","0","0">>,
                <<"-","-">>, <<"D","N","S">>, <<"D","N","F">>, <<"D","Q">>,
                <<"n","a","n">>, <<"N","o","n","e">>, <<"N","a","N">>,
                <<"<","N","A",">">> }

\* a * x + b over cells: NaN if either operand is NaN
cell_add(a, b) == IF isna(a) \/ isna(b) THEN NaN ELSE Cell(Val(a) + Val(b))
cell_mul(a, k) == IF isna(a) THEN NaN ELSE Cell(Val(a) * k)

\* mutant of hms_to_sec_cell: the H:MM:SS rule weighs the hours by 60
hms_to_sec_cell_hours60(c) ==
    LET s     == strip(astype_str(c))
        valid == s \notin bad_tokens /\ notna(c)
        nc    == count_ch(s, ":")
        p     == split(s, ":")
    IN IF ~valid THEN NaN
       ELSE IF nc = 2 THEN cell_add(cell_add(cell_mul(to_numeric(p[1]), 60),
                                             cell_mul(to_numeric(p[2]), 60)),
                                    to_numeric(p[3]))
       ELSE IF nc = 1 THEN cell_add(cell_mul(to_numeric(p[1]), 60), to_numeric(p[2]))
       ELSE IF nc = 0 THEN to_numeric(s)
       ELSE NaN

\* one element of hms_to_sec's result
hms_to_sec_cell(c) ==
    LET s     == strip(astype_str(c))
        bad   == s \in bad_tokens
        valid == ~bad /\ notna(c)
        nc    == count_ch(s, ":")
        p     == split(s, ":")
    IN IF ~valid THEN NaN
       ELSE IF nc = 2 THEN cell_add(cell_add(cell_mul(to_numeric(p[1]), 3600),
                                             cell_mul(to_numeric(p[2]), 60)),
                                    to_numeric(p[3]))
       ELSE IF nc = 1 THEN cell_add(cell_mul(to_numeric(p[1]), 60), to_numeric(p[2]))
       ELSE IF nc = 0 THEN to_numeric(s)
       ELSE NaN

hms_to_sec(col) == [i \in 1..Len(col) |-> hms_to_sec_cell(col[i])]

(***************************************************************************)
(* hash_athletes                                                           *)
(***************************************************************************)
\* Series.fillna('').astype(str)
fillna_str(c) == IF isna(c) THEN <<>> ELSE Val(c)

\* hashlib.sha256(k.encode()).hexdigest()[:16]: the digest is not computed;
\* it is a value determined by the key and by nothing else, distinct keys
\* giving distinct values (collisions of the truncated digest are not modelled)
sha256_hex16(key) == <<"sha256[:16]", key>>

\* mutant of hash_key: the country is lower-cased but not trimmed
hash_key_country_untrimmed(name, country, gender) ==
    lower(strip(fillna_str(name))) \o <<"|">> \o lower(fillna_str(country))
        \o <<"|">> \o upper(strip(fillna_str(gender)))

\* keys = n + '|' + c + '|' + g
hash_key(name, country, gender) ==
    LET n == lower(strip(fillna_str(name)))
        c == lower(strip(fillna_str(country)))
        g == upper(strip(fillna_str(gender)))
    IN n \o <<"|">> \o c \o <<"|">> \o g

\* mutant of has_name: a name of blanks counts as a name (length taken
\* before trimming)
has_name_untrimmed(name) == Len(fillna_str(name)) > 0

\* has_name = n.str.len() > 0
has_name(name) == Len(lower(strip(fillna_str(name)))) > 0

\* one element of hash_athletes' result
hash_athletes_cell(name, country, gender) ==
    IF has_name(name) THEN Cell(sha256_hex16(hash_key(name, country, gender)))
    ELSE NaN

\* the three columns are aligned on one index
hash_athletes(names, countries, genders) ==
    [i \in 1..Len(names) |-> hash_athletes_cell(names[i], countries[i], genders[i])]

(***************************************************************************)
(* Tables: a DataFrame is its column list and its rows, a row a function   *)
(* from the column names to cells                                          *)
(***************************************************************************)
DataFrame(columns, rows) == <<"DataFrame", columns, rows>>
columns_of(t) == t[2]
rows_of(t) == t[3]
len(t) == Len(rows_of(t))
has_column(t, c) == \E i \in 1..Len(columns_of(t)) : columns_of(t)[i] = c

SCHEMA == << "athlete_hash", "athlete_name", "gender", "age_group", "age_band",
             "country", "country_iso2", "is_pro",
             "event_name", "event_year", "event_location", "event_distance", "source",
             "swim_sec", "t1_sec", "bike_sec", "t2_sec", "run_sec", "total_sec",
             "overall_rank", "gender_rank", "age_group_rank", "division_rank",
             "finish_status" >>

DERIVED == << "swim_pct", "bike_pct", "run_pct", "transition_pct",
              "bike_run_ratio", "fade_ratio", "implied_bike_if", "cohort_percentile" >>

SeqToSet(q) == {q[i] : i \in 1..Len(q)}

(***************************************************************************)
(* quality_filter                                                          *)
(***************************************************************************)
\* quality bounds; pct is (0.05, 0.65) written in hundredths
B == [swim  |-> <<300, 9000>>, bike |-> <<1800, 36000>>, run |-> <<600, 25200>>,
      total |-> <<3300, 68400>>, t  |-> <<0, 1200>>,     pct |-> <<5, 65>>]

\* Series.between(lo, hi): inclusive, False for a missing value
between(c, bound) == notna(c) /\ bound[1] <= Val(c) /\ Val(c) <= bound[2]

\* pct = df[col] / df['total_sec'] is missing when an operand is, or when it is 0/0
pct_notna(seg, total) ==
    notna(seg) /\ notna(total) /\ ~(Val(seg) = 0 /\ Val(total) = 0)

\* pct.between(*B['pct']) for a pct that is not missing; x/0 is infinite
pct_between(seg, total) ==
    LET n == Val(seg)
        d == Val(total)
    IN IF d > 0 THEN B.pct[1] * d <= 100 * n /\ 100 * n <= B.pct[2] * d
       ELSE IF d < 0 THEN B.pct[1] * d >= 100 * n /\ 100 * n >= B.pct[2] * d
       ELSE FALSE

SegCol == [swim |-> "swim_sec", bike |-> "bike_sec", run |-> "run_sec"]

\* mutant of quality_mask: the transitions are not tested
quality_mask_without_transitions(t, r) ==
    /\ has_column(t, "total_sec") => between(r["total_sec"], B.total)
    /\ \A seg \in {"swim", "bike", "run"} :
          has_column(t, SegCol[seg]) =>
             ~(notna(r[SegCol[seg]]) /\ ~between(r[SegCol[seg]], B[seg]))
    /\ has_column(t, "total_sec") =>
          \A seg \in {"swim", "bike", "run"} :
             has_column(t, SegCol[seg]) =>
                ~(pct_notna(r[SegCol[seg]], r["total_sec"])
                  /\ ~pct_between(r[SegCol[seg]], r["total_sec"]))

\* mutant of quality_mask: the total is tested like a segment, so that a
\* missing total passes
quality_mask_total_optional(t, r) ==
    /\ has_column(t, "total_sec") =>
          ~(notna(r["total_sec"]) /\ ~between(r["total_sec"], B.total))
    /\ \A seg \in {"swim", "bike", "run"} :
          has_column(t, SegCol[seg]) =>
             ~(notna(r[SegCol[seg]]) /\ ~between(r[SegCol[seg]], B[seg]))
    /\ \A col \in {"t1_sec", "t2_sec"} :
          has_column(t, col) => ~(notna(r[col]) /\ ~between(r[col], B.t))
    /\ has_column(t, "total_sec") =>
          \A seg \in {"swim", "bike", "run"} :
             has_column(t, SegCol[seg]) =>
                ~(pct_notna(r[SegCol[seg]], r["total_sec"])
                  /\ ~pct_between(r[SegCol[seg]], r["total_sec"]))

\* the mask m of quality_filter for one row r of table t
quality_mask(t, r) ==
    /\ has_column(t, "total_sec") => between(r["total_sec"], B.total)
    /\ \A seg \in {"swim", "bike", "run"} :
          has_column(t, SegCol[seg]) =>
             ~(notna(r[SegCol[seg]]) /\ ~between(r[SegCol[seg]], B[seg]))
    /\ \A col \in {"t1_sec", "t2_sec"} :
          has_column(t, col) => ~(notna(r[col]) /\ ~between(r[col], B.t))
    /\ has_column(t, "total_sec") =>
          \A seg \in {"swim", "bike", "run"} :
             has_column(t, SegCol[seg]) =>
                ~(pct_notna(r[SegCol[seg]], r["total_sec"])
                  /\ ~pct_between(r[SegCol[seg]], r["total_sec"]))

\* out = df[m].copy()
quality_filter(t) ==
    DataFrame(columns_of(t), SelectSeq(rows_of(t), LAMBDA r : quality_mask(t, r)))

(***************************************************************************)
(* Inputs of hms_to_sec: every text of at most MaxTokLen characters over   *)
(* HmsAlphabet as a one-element column, and columns of at most             *)
(* MaxSeriesLen cells over the named tokens                                *)
(***************************************************************************)
MaxTokLen == 5
MaxSeriesLen == 2

HmsAlphabet == {"0", "1", ":", "-", " ", "x"}

TextsUpTo(alphabet, n) == UNION {[1..k -> alphabet] : k \in 0..n}

NamedTokens ==
    bad_tokens \cup
    { <<"1",":","0","2",":","0","3">>,          \* 1:02:03
      <<"1","2",":","3","4",":","5","6">>,      \* 12:34:56
      <<"5","9",":","5","9">>,                  \* 59:59
      <<"3","6","0","0">>,                      \* 3600
      <<"0">>,                                  \* 0
      <<"0",":","0",":","0">>,                  \* 0:0:0
      <<" ","D","N","F"," ">>,                  \* ' DNF '
      <<" ","4",":","0","5"," ">>,              \* ' 4:05 '
      <<"1",":","2",":","3",":","4">>,          \* 1:2:3:4
      <<"1",":","x","x",":","3","0">>,          \* 1:xx:30
      <<"d","n","f">>,                          \* dnf
      <<"+","7">> }                             \* +7

HmsCells == {NaN} \cup {Cell(t) : t \in NamedTokens}

HmsSeriesInputs ==
    {<<Cell(t)>> : t \in TextsUpTo(HmsAlphabet, MaxTokLen)}
    \cup UNION {[1..k -> HmsCells] : k \in 0..MaxSeriesLen}

Idle == <<"idle">>

InitHms ==
    /\ series \in HmsSeriesInputs
    /\ secs = Pending
    /\ triple = Idle /\ hashes = Idle /\ df = Idle /\ out = Idle
    /\ scraped = Idle /\ pc = "idle" /\ sources = Idle /\ fact = Idle
    /\ cohort = Idle /\ profile = Idle /\ error = Idle /\ history = <<>>

CallHms ==
    /\ secs = Pending
    /\ secs' = hms_to_sec(series)
    /\ UNCHANGED <<series, triple, hashes, df, out>>
    /\ UNCHANGED pipeVars

NextHms == CallHms

SpecHms == InitHms /\ [][NextHms]_vars

(***************************************************************************)
(* Claims about hms_to_sec (checked under SpecHms)                         *)
(***************************************************************************)
\* the value the claim expects of a token whose parts are digit strings
ExpectedSeconds(p) ==
    IF Len(p) = 3 THEN digits_value(p[1]) * 3600 + digits_value(p[2]) * 60
                       + digits_value(p[3])
    ELSE IF Len(p) = 2 THEN digits_value(p[1]) * 60 + digits_value(p[2])
    ELSE digits_value(p[1])

DurationShaped(s) ==
    LET p == split(s, ":")
    IN Len(p) <= 3 /\ \A k \in 1..Len(p) : all_digits(p[k])

ZeroDurationTokens == { <<"0",":","0","0">>, <<"0","0",":","0","0">>,
                        <<"0",":","0","0",":","0","0">>,
                        <<"0","0",":","0","0",":","0","0">> }

\* C2 as stated: every H:MM:SS / MM:SS / bare-seconds token parses to
\* h*3600+m*60+s, m*60+s or the bare value, the rule chosen by the number of
\* ':' separators, and the result has the length of the input.
C2_EveryDurationTokenParses ==
    secs # Pending =>
        /\ Len(secs) = Len(series)
        /\ \A i \in 1..Len(series) :
              notna(series[i]) /\ DurationShaped(strip(Val(series[i]))) =>
                 secs[i] = Cell(ExpectedSeconds(split(strip(Val(series[i])), ":")))

\* C2 amended: the same for every duration token other than the four
\* zero-duration spellings 0:00, 00:00, 0:00:00, 00:00:00, which hms_to_sec
\* lists among its sentinels and maps to null.
C2_NonZeroSpellingParses ==
    secs # Pending =>
        /\ Len(secs) = Len(series)
        /\ \A i \in 1..Len(series) :
              /\ notna(series[i])
              /\ DurationShaped(strip(Val(series[i])))
              /\ strip(Val(series[i])) \notin ZeroDurationTokens
              => secs[i] = Cell(ExpectedSeconds(split(strip(Val(series[i])), ":")))

\* C2 witness: a H:MM:SS token with a non-zero hour has been converted
C2_Witness ==
    /\ secs # Pending
    /\ \E i \in 1..Len(series) :
          /\ notna(series[i])
          /\ DurationShaped(Val(series[i]))
          /\ count_ch(Val(series[i]), ":") = 2
          /\ notna(secs[i])
          /\ Val(secs[i]) >= 3600

HmsSentinels == { <<>>, <<"-","-">>, <<"D","N","S">>, <<"D","N","F">>, <<"D","Q">> }

Unparseable(s) ==
    \/ count_ch(s, ":") >= 3
    \/ \E k \in 1..Len(split(s, ":")) : ~is_integer_text(split(s, ":")[k])

\* C3: every sentinel token (DNS, DNF, DQ, empty, '--', missing value) and
\* every unparseable token (a non-numeric part, three or more separators)
\* becomes null, never zero, and every input element gets a result.
C3_SentinelsAndGarbageToNull ==
    secs # Pending =>
        /\ Len(secs) = Len(series)
        /\ \A i \in 1..Len(series) :
              \/ isna(series[i])
              \/ strip(Val(series[i])) \in HmsSentinels
              \/ Unparseable(strip(Val(series[i])))
              => secs[i] = NaN /\ secs[i] # Cell(0)

\* C3 witness: a column holding a DNF sentinel next to an unparseable token
\* with a numeric-looking part has been converted
C3_Witness ==
    /\ secs # Pending
    /\ \E i, j \in 1..Len(series) :
          /\ notna(series[i]) /\ strip(Val(series[i])) = <<"D","N","F">>
          /\ notna(series[j]) /\ Val(series[j]) = <<"1",":","x","x",":","3","0">>
          /\ secs[i] = NaN /\ secs[j] = NaN

(***************************************************************************)
(* Inputs of hash_athletes: columns of one or two records; names are every *)
(* text of at most MaxNameLen characters over NameAlphabet, or missing     *)
(***************************************************************************)
MaxNameLen == 2

NameAlphabet == {"a", "A", " "}

NameCells == {NaN} \cup {Cell(t) : t \in TextsUpTo(NameAlphabet, MaxNameLen)}
CountryCells == {NaN, Cell(<<"u">>), Cell(<<" ","U">>)}
GenderCells == {NaN, Cell(<<"m">>), Cell(<<" ","M">>), Cell(<<"F">>)}

HashRecords == NameCells \X CountryCells \X GenderCells

\* the (names, countries, genders) columns of a list of records
Columns(recs) == << [i \in 1..Len(recs) |-> recs[i][1]],
                    [i \in 1..Len(recs) |-> recs[i][2]],
                    [i \in 1..Len(recs) |-> recs[i][3]] >>

HashInputs == {Columns(<<r>>) : r \in HashRecords}
              \cup {Columns(<<r1, r2>>) : r1 \in HashRecords, r2 \in HashRecords}

InitHash ==
    /\ triple \in HashInputs
    /\ hashes = Pending
    /\ series = Idle /\ secs = Idle /\ df = Idle /\ out = Idle
    /\ scraped = Idle /\ pc = "idle" /\ sources = Idle /\ fact = Idle
    /\ cohort = Idle /\ profile = Idle /\ error = Idle /\ history = <<>>

CallHash ==
    /\ hashes = Pending
    /\ hashes' = hash_athletes(triple[1], triple[2], triple[3])
    /\ UNCHANGED <<series, secs, triple, df, out>>
    /\ UNCHANGED pipeVars

NextHash == CallHash

SpecHash == InitHash /\ [][NextHash]_vars

(***************************************************************************)
(* Claims about hash_athletes (checked under SpecHash)                     *)
(***************************************************************************)
\* equal after trimming and ignoring letter case, a missing field read as ''
SameField(x, y) == lower(strip(fillna_str(x))) = lower(strip(fillna_str(y)))

SameTriple(i, j) ==
    /\ SameField(triple[1][i], triple[1][j])
    /\ SameField(triple[2][i], triple[2][j])
    /\ SameField(triple[3][i], triple[3][j])

Named(i) == strip(fillna_str(triple[1][i])) # <<>>

\* the three fields trimmed and lower-cased, then joined
LowerCasedKey(i) ==
    lower(strip(fillna_str(triple[1][i]))) \o <<"|">>
        \o lower(strip(fillna_str(triple[2][i]))) \o <<"|">>
        \o lower(strip(fillna_str(triple[3][i])))

\* name and country trimmed and lower-cased, gender trimmed and upper-cased
NormalisedKey(i) ==
    lower(strip(fillna_str(triple[1][i]))) \o <<"|">>
        \o lower(strip(fillna_str(triple[2][i]))) \o <<"|">>
        \o upper(strip(fillna_str(triple[3][i])))

MaxFilterRows == 2

TotalValues == {NaN, Cell(3299), Cell(3300), Cell(10000), Cell(68400), Cell(68401)}
SwimValues  == {NaN, Cell(299), Cell(300), Cell(499), Cell(500), Cell(6500),
                Cell(6501), Cell(8000), Cell(9000), Cell(9001)}
BikeValues  == {NaN, Cell(1799), Cell(1800), Cell(6500), Cell(6501), Cell(36000),
                Cell(36001)}
RunValues   == {NaN, Cell(599), Cell(600), Cell(6500), Cell(25200), Cell(25201)}
T1Values    == {NaN, Cell(0 - 1), Cell(0), Cell(1200), Cell(1201)}
T2Values    == {NaN, Cell(1200), Cell(1201)}

SegmentColumns == <<"swim_sec", "bike_sec", "run_sec", "total_sec">>
TimeColumns == <<"swim_sec", "t1_sec", "bike_sec", "t2_sec", "run_sec", "total_sec">>

SegmentRows == [swim_sec : SwimValues, bike_sec : BikeValues, run_sec : RunValues,
                total_sec : TotalValues]
TimeRows == [swim_sec : SwimValues, t1_sec : T1Values, bike_sec : BikeValues,
             t2_sec : T2Values, run_sec : RunValues, total_sec : TotalValues]

TimeRow(sw, t1, bk, t2, rn, tot) ==
    [swim_sec |-> sw, t1_sec |-> t1, bike_sec |-> bk, t2_sec |-> t2,
     run_sec |-> rn, total_sec |-> tot]

FewRows == { TimeRow(Cell(1500), Cell(120), Cell(5000), Cell(90), Cell(3000), Cell(10000)),
             TimeRow(NaN, NaN, NaN, NaN, NaN, Cell(10000)),
             TimeRow(Cell(8000), NaN, NaN, NaN, NaN, Cell(10000)),
             TimeRow(Cell(1500), NaN, Cell(5000), NaN, Cell(3000), NaN),
             TimeRow(Cell(1500), Cell(1201), Cell(5000), Cell(90), Cell(3000), Cell(10000)),
             TimeRow(Cell(300), NaN, Cell(1800), NaN, Cell(600), Cell(3299)) }

FilterInputs ==
    {DataFrame(TimeColumns, <<r>>) : r \in TimeRows}
    \cup {DataFrame(SegmentColumns, <<r>>) : r \in SegmentRows}
    \cup UNION {{DataFrame(TimeColumns, q) : q \in [1..k -> FewRows]} : k \in 0..MaxFilterRows}

InitFilter ==
    /\ df \in FilterInputs
    /\ out = Pending
    /\ series = Idle /\ secs = Idle /\ triple = Idle /\ hashes = Idle
    /\ scraped = Idle /\ pc = "idle" /\ sources = Idle /\ fact = Idle
    /\ cohort = Idle /\ profile = Idle /\ error = Idle /\ history = <<>>

CallFilter ==
    /\ out = Pending
    /\ out' = quality_filter(df)
    /\ UNCHANGED <<series, secs, triple, hashes, df>>
    /\ UNCHANGED pipeVars

NextFilter == CallFilter

SpecFilter == InitFilter /\ [][NextFilter]_vars

(***************************************************************************)
(* Claims about quality_filter (checked under SpecFilter)                  *)
(***************************************************************************)
InRange(c, lo, hi) == lo <= Val(c) /\ Val(c) <= hi

\* the share of the total is within [5%, 65%]
ShareWithinBounds(seg, total) ==
    20 * Val(seg) >= Val(total) /\ 20 * Val(seg) <= 13 * Val(total)

RecordWithinBounds(cols, r) ==
    /\ notna(r["total_sec"]) /\ InRange(r["total_sec"], 3300, 68400)
    /\ notna(r["swim_sec"]) => InRange(r["swim_sec"], 300, 9000)
                               /\ ShareWithinBounds(r["swim_sec"], r["total_sec"])
    /\ notna(r["bike_sec"]) => InRange(r["bike_sec"], 1800, 36000)
                               /\ ShareWithinBounds(r["bike_sec"], r["total_sec"])
    /\ notna(r["run_sec"])  => InRange(r["run_sec"], 600, 25200)
                               /\ ShareWithinBounds(r["run_sec"], r["total_sec"])

\* C1: every row quality_filter returns has a total present and within
\* [3300, 68400], every present swim / bike / run within its own bound and
\* between 5% and 65% of the total; a row with a total outside the bound,
\* a missing total, or a swim of 80% of the total is never returned.
C1_FilterOutputWithinBounds ==
    out # Pending =>
        /\ \A i \in 1..len(out) : RecordWithinBounds(columns_of(out), rows_of(out)[i])
        /\ \A i \in 1..len(out) :
              LET r == rows_of(out)[i]
              IN ~(notna(r["swim_sec"]) /\ 10 * Val(r["swim_sec"]) = 8 * Val(r["total_sec"]))

\* C1 witness: a table with a row whose swim is 80% of its total, next to
\* a clean row, has been filtered: the clean row is kept, the other is not
C1_Witness ==
    /\ out # Pending
    /\ len(df) = 2 /\ len(out) = 1
    /\ \E i \in 1..2 :
          LET r == rows_of(df)[i]
          IN notna(r["swim_sec"]) /\ notna(r["total_sec"])
             /\ 10 * Val(r["swim_sec"]) = 8 * Val(r["total_sec"])
             /\ rows_of(out)[1] # r
    /\ notna(rows_of(out)[1]["swim_sec"])


(***************************************************************************)
(* Text searching used by the categorical normalizers and the processors   *)
(***************************************************************************)
\* text[i:].startswith(pat), positions from 1
starts_at(s, i, pat) ==
    i >= 1 /\ i + Len(pat) - 1 <= Len(s) /\ SubSeq(s, i, i + Len(pat) - 1) = pat

\* str.contains(pat) for a literal pattern
contains(s, pat) == \E i \in 1..(Len(s) + 1) : starts_at(s, i, pat)

Min(S) == CHOOSE x \in S : \A y \in S : x <= y
Max(S) == CHOOSE x \in S : \A y \in S : x >= y

\* str.replace(pat, rep, regex=False): every occurrence, left to right
RECURSIVE str_replace(_, _, _)
str_replace(s, pat, rep) ==
    IF ~contains(s, pat) THEN s
    ELSE LET k == Min({i \in 1..Len(s) : starts_at(s, i, pat)})
         IN SubSeq(s, 1, k - 1) \o rep
            \o str_replace(SubSeq(s, k + Len(pat), Len(s)), pat, rep)

is_digit(ch) == InSeq(ch, DigitChars)
is_lower(ch) == InSeq(ch, LowerChars)
is_letter(ch) == InSeq(ch, LowerChars) \/ InSeq(ch, UpperChars)

\* k digits start at position i
digits_at(s, i, k) == i + k - 1 <= Len(s) /\ \A j \in i..(i + k - 1) : is_digit(s[j])

\* length of the greedy match of \d{2,3} at position i, 0 if none
digits23_at(s, i) == IF digits_at(s, i, 3) THEN 3 ELSE IF digits_at(s, i, 2) THEN 2 ELSE 0

\* length of the match of \d{2,3}-\d{2,3} at position i, 0 if none
range_at(s, i) ==
    LET a == IF digits_at(s, i, 3) /\ starts_at(s, i + 3, <<"-">>) THEN 3
             ELSE IF digits_at(s, i, 2) /\ starts_at(s, i + 2, <<"-">>) THEN 2
             ELSE 0
    IN IF a = 0 \/ digits23_at(s, i + a + 1) = 0 THEN 0
       ELSE a + 1 + digits23_at(s, i + a + 1)

\* length of the match of \d{2,3}\+ at position i, 0 if none
plus_at(s, i) ==
    IF digits_at(s, i, 3) /\ starts_at(s, i + 3, <<"+">>) THEN 4
    ELSE IF digits_at(s, i, 2) /\ starts_at(s, i + 2, <<"+">>) THEN 3
    ELSE 0

\* Series.str.extract(pattern): the leftmost match, NaN if there is none;
\* match_at(s, i) is the length of the pattern's match at position i
extract(s, match_at(_, _)) ==
    LET hits == {i \in 1..Len(s) : match_at(s, i) > 0}
    IN IF hits = {} THEN NaN
       ELSE Cell(SubSeq(s, Min(hits), Min(hits) + match_at(s, Min(hits)) - 1))

\* norm_gender, one element
norm_gender(c) ==
    LET s == upper(strip(astype_str(c)))
    IN IF s \in {<<"F">>, <<"F","E","M","A","L","E">>} THEN Cell(<<"F">>)
       ELSE IF s \in {<<"M">>, <<"M","A","L","E">>} THEN Cell(<<"M">>)
       ELSE NaN

\* extract_ag, one element: 'NN-NN', else 'NN+', else NaN
extract_ag(c) ==
    LET s  == astype_str(c)
        ag == extract(s, range_at)
    IN IF notna(ag) THEN ag ELSE extract(s, plus_at)

\* extract_band, one element: the first \d{2,3} of the age group as a number
extract_band(ag) ==
    IF isna(ag) THEN NaN
    ELSE LET d == extract(Val(ag), digits23_at)
         IN IF isna(d) THEN NaN ELSE to_numeric(Val(d))

\* .str methods leave a missing value missing
str_map(c, f(_)) == IF isna(c) THEN NaN ELSE Cell(f(Val(c)))

\* pd.to_numeric(column, errors='coerce'), one element
to_numeric_cell(c) == IF isna(c) THEN NaN ELSE to_numeric(Val(c))

(***************************************************************************)
(* Shared steps of the source processors                                   *)
(***************************************************************************)
Absent == <<"absent">>
Ok(t) == <<"ok", t>>
Raise(kind, what) == <<"raise", <<kind, what>>>>
raised(res) == res[1] = "raise"

SchemaSet == SeqToSet(SCHEMA)

\* pd.DataFrame(columns=SCHEMA)
EmptySchemaTable == DataFrame(SCHEMA, <<>>)

\* t.get(c, default): the column, or missing values when the file has no such column
get(t, r, c) == IF has_column(t, c) THEN r[c] ELSE NaN

\* the first column of req, in evaluation order, that the table lacks (0: none);
\* t[c] raises KeyError(c) for it
first_missing(t, req) ==
    LET miss == {i \in 1..Len(req) : ~has_column(t, req[i])}
    IN IF miss = {} THEN 0 ELSE Min(miss)

\* df.dropna(subset=[c])
dropna(t, c) == DataFrame(columns_of(t), SelectSeq(rows_of(t), LAMBDA r : notna(r[c])))

\* mutant of ensure_schema: the table is returned with the columns it has
ensure_schema_as_is(t) == t

\* ensure_schema: add the columns the table lacks, as NaN, and select SCHEMA
ensure_schema(t) ==
    DataFrame(SCHEMA,
              [i \in 1..len(t) |->
                  [c \in SchemaSet |-> IF has_column(t, c) THEN rows_of(t)[i][c] ELSE NaN]])

\* the rows of a table, each rebuilt by make(t, r)
map_rows(t, cols, make(_, _)) ==
    DataFrame(cols, list([i \in 1..len(t) |-> make(t, rows_of(t)[i])]))

Finisher == <<"f","i","n","i","s","h","e","r">>
D703  == <<"7","0",".","3">>
D1406 == <<"1","4","0",".","6">>

(***************************************************************************)
(* process_t100                                                            *)
(***************************************************************************)
T100Required == <<"athlete_name", "event_name", "event_year", "swim_sec", "t1_sec",
                  "bike_sec", "t2_sec", "run_sec", "total_sec">>

T100Columns == <<"athlete_name", "gender", "age_group", "country", "is_pro",
                 "event_name", "event_year", "event_location", "event_distance",
                 "source", "swim_sec", "t1_sec", "bike_sec", "t2_sec", "run_sec",
                 "total_sec", "overall_rank", "gender_rank", "age_group_rank",
                 "finish_status", "athlete_hash">>

remove_t100(name) == str_replace(name, <<" ","T","1","0","0">>, <<>>)

t100_row(t, r) ==
    [athlete_name   |-> r["athlete_name"],
     gender         |-> get(t, r, "gender"),
     age_group      |-> get(t, r, "age_group"),
     country        |-> get(t, r, "country"),
     is_pro         |-> Cell(TRUE),
     event_name     |-> r["event_name"],
     event_year     |-> to_numeric_cell(r["event_year"]),
     event_location |-> str_map(r["event_name"], remove_t100),
     event_distance |-> get(t, r, "event_distance"),
     source         |-> Cell("t100"),
     swim_sec       |-> to_numeric_cell(r["swim_sec"]),
     t1_sec         |-> to_numeric_cell(r["t1_sec"]),
     bike_sec       |-> to_numeric_cell(r["bike_sec"]),
     t2_sec         |-> to_numeric_cell(r["t2_sec"]),
     run_sec        |-> to_numeric_cell(r["run_sec"]),
     total_sec      |-> to_numeric_cell(r["total_sec"]),
     overall_rank   |-> to_numeric_cell(get(t, r, "overall_rank")),
     gender_rank    |-> to_numeric_cell(get(t, r, "gender_rank")),
     age_group_rank |-> to_numeric_cell(get(t, r, "age_group_rank")),
     finish_status  |-> Cell(Finisher),
     athlete_hash   |-> hash_athletes_cell(r["athlete_name"], get(t, r, "country"),
                                           get(t, r, "gender"))]

\* files: Absent when the glob finds no file, else the concatenated csv files
process_t100(files) ==
    IF files = Absent THEN Ok(EmptySchemaTable)
    ELSE IF first_missing(files, T100Required) # 0
         THEN Raise("KeyError", T100Required[first_missing(files, T100Required)])
    ELSE Ok(ensure_schema(quality_filter(
                dropna(map_rows(files, T100Columns, t100_row), "total_sec"))))

(***************************************************************************)
(* process_wiki                                                            *)
(***************************************************************************)
WikiColumns == <<"athlete_name", "gender", "age_group", "country", "is_pro",
                 "event_name", "event_year", "event_location", "event_distance",
                 "source", "swim_sec", "t1_sec", "bike_sec", "t2_sec", "run_sec",
                 "total_sec", "overall_rank", "gender_rank", "age_group_rank",
                 "finish_status", "athlete_hash">>

wiki_row(w, r) ==
    [athlete_name   |-> r["athlete_name"],
     gender         |-> norm_gender(get(w, r, "gender")),
     age_group      |-> get(w, r, "age_group"),
     country        |-> get(w, r, "country"),
     is_pro         |-> Cell(TRUE),
     event_name     |-> get(w, r, "event_name"),
     event_year     |-> to_numeric_cell(get(w, r, "event_year")),
     event_location |-> get(w, r, "event_name"),
     event_distance |-> get(w, r, "event_distance"),
     source         |-> Cell("wiki"),
     swim_sec       |-> to_numeric_cell(get(w, r, "swim_sec")),
     t1_sec         |-> to_numeric_cell(get(w, r, "t1_sec")),
     bike_sec       |-> to_numeric_cell(get(w, r, "bike_sec")),
     t2_sec         |-> to_numeric_cell(get(w, r, "t2_sec")),
     run_sec        |-> to_numeric_cell(get(w, r, "run_sec")),
     total_sec      |-> to_numeric_cell(get(w, r, "total_sec")),
     overall_rank   |-> to_numeric_cell(get(w, r, "overall_rank")),
     gender_rank    |-> to_numeric_cell(get(w, r, "gender_rank")),
     age_group_rank |-> to_numeric_cell(get(w, r, "age_group_rank")),
     finish_status  |-> Cell(Finisher),
     athlete_hash   |-> hash_athletes_cell(r["athlete_name"], get(w, r, "country"),
                                           norm_gender(get(w, r, "gender")))]

\* w = w[w['athlete_name'].astype(str).str.strip().str.len() > 0]
wiki_named(w) ==
    DataFrame(columns_of(w),
              SelectSeq(rows_of(w),
                        LAMBDA r : Len(strip(astype_str(r["athlete_name"]))) > 0))

\* recs: Absent when no file yields a record, else pd.DataFrame(recs)
process_wiki(recs) ==
    IF recs = Absent \/ len(recs) = 0 THEN Ok(EmptySchemaTable)
    ELSE IF ~has_column(recs, "athlete_name") THEN Raise("KeyError", "athlete_name")
    ELSE IF ~has_column(recs, "total_sec") THEN Raise("KeyError", "total_sec")
    ELSE Ok(ensure_schema(quality_filter(
                map_rows(dropna(wiki_named(recs), "total_sec"), WikiColumns, wiki_row))))

(***************************************************************************)
(* process_df6                                                             *)
(***************************************************************************)
Df6Required == <<"Gender", "AgeGroup", "AgeBand", "Country", "CountryISO2",
                 "EventLocation", "EventYear", "SwimTime", "Transition1Time",
                 "BikeTime", "Transition2Time", "RunTime", "FinishTime">>

Df6Columns == <<"athlete_hash", "athlete_name", "gender", "age_group", "age_band",
                "country", "country_iso2", "is_pro", "event_name", "event_year",
                "event_location", "event_distance", "source", "swim_sec", "t1_sec",
                "bike_sec", "t2_sec", "run_sec", "total_sec", "finish_status">>

df6_row(raw, r) ==
    [athlete_hash   |-> NaN,
     athlete_name   |-> NaN,
     gender         |-> r["Gender"],
     age_group      |-> r["AgeGroup"],
     age_band       |-> to_numeric_cell(r["AgeBand"]),
     country        |-> r["Country"],
     country_iso2   |-> r["CountryISO2"],
     is_pro         |-> Cell(FALSE),
     event_name     |-> Cell(<<"I","r","o","n","m","a","n"," ","7","0",".","3"," ">> \o astype_str(r["EventLocation"])),
     event_year     |-> to_numeric_cell(r["EventYear"]),
     event_location |-> r["EventLocation"],
     event_distance |-> Cell(D703),
     source         |-> Cell("kaggle_df6"),
     swim_sec       |-> to_numeric_cell(r["SwimTime"]),
     t1_sec         |-> to_numeric_cell(r["Transition1Time"]),
     bike_sec       |-> to_numeric_cell(r["BikeTime"]),
     t2_sec         |-> to_numeric_cell(r["Transition2Time"]),
     run_sec        |-> to_numeric_cell(r["RunTime"]),
     total_sec      |-> to_numeric_cell(r["FinishTime"]),
     finish_status  |-> Cell(Finisher)]

\* raw: Absent when Half_Ironman_df6.csv does not exist (pd.read_csv raises)
process_df6(raw) ==
    IF raw = Absent THEN Raise("FileNotFoundError", "Half_Ironman_df6.csv")
    ELSE IF first_missing(raw, Df6Required) # 0
         THEN Raise("KeyError", Df6Required[first_missing(raw, Df6Required)])
    ELSE Ok(ensure_schema(quality_filter(
                dropna(map_rows(raw, Df6Columns, df6_row), "total_sec"))))


(***************************************************************************)
(* process_coachcox                                                        *)
(***************************************************************************)
\* races.merge(series, left_on='seriesID', right_on='id', suffixes=('_r','_s')):
\* inner join in the order of the left rows; races has (id, seriesID, year),
\* series has (id, location)
races_merge_series(races, series_csv) ==
    LET joined(i) == [j \in 1..len(series_csv) |->
                         IF rows_of(races)[i]["seriesID"] = rows_of(series_csv)[j]["id"]
                         THEN << [id_r     |-> rows_of(races)[i]["id"],
                                  seriesID |-> rows_of(races)[i]["seriesID"],
                                  year     |-> rows_of(races)[i]["year"],
                                  id_s     |-> rows_of(series_csv)[j]["id"],
                                  location |-> rows_of(series_csv)[j]["location"]] >>
                         ELSE <<>>]
        RECURSIVE flat(_, _)
        flat(q, k) == IF k > Len(q) THEN <<>> ELSE q[k] \o flat(q, k + 1)
        RECURSIVE all(_)
        all(i) == IF i > len(races) THEN <<>> ELSE flat(joined(i), 1) \o all(i + 1)
    IN DataFrame(<<"id_r", "seriesID", "year", "id_s", "location">>, all(1))

\* raw.merge(races_e[['id_r','year','location']], left_on='raceID',
\*           right_on='id_r', how='left'): every result row once per matching
\* race, or once with missing year and location; the rows get a fresh index
results_merge_races(raw, races_e) ==
    LET with(r, e) == [c \in SeqToSet(columns_of(raw)) \cup {"id_r", "year", "location"} |->
                          IF c = "id_r" THEN e["id_r"]
                          ELSE IF c = "year" THEN e["year"]
                          ELSE IF c = "location" THEN e["location"]
                          ELSE r[c]]
        none == [id_r |-> NaN, year |-> NaN, location |-> NaN]
        matches(r) == SelectSeq(rows_of(races_e), LAMBDA e : e["id_r"] = r["raceID"])
        expand(r) == IF matches(r) = <<>> THEN <<with(r, none)>>
                     ELSE [k \in 1..Len(matches(r)) |-> with(r, matches(r)[k])]
        RECURSIVE all(_)
        all(i) == IF i > len(raw) THEN <<>> ELSE expand(rows_of(raw)[i]) \o all(i + 1)
    IN DataFrame(columns_of(raw) \o <<"id_r", "year", "location">>, all(1))

CoachcoxRequired == <<"raceID", "swimTime", "bikeTime", "runTime", "overallTime",
                      "Division", "Name", "Gender", "Country", "overallRank",
                      "divisionRank", "finishStatus">>

CoachcoxColumns == <<"athlete_name", "gender", "age_group", "age_band", "country",
                     "is_pro", "event_name", "event_year", "event_location",
                     "event_distance", "source", "swim_sec", "bike_sec", "run_sec",
                     "total_sec", "overall_rank", "division_rank", "finish_status",
                     "athlete_hash">>

lower_strip(x) == strip(lower(x))

\* mutant of coachcox_pro: any division that contains 'PRO'
coachcox_pro_contains(d) == notna(d) /\ contains(upper(Val(d)), <<"P","R","O">>)

\* raw['_pro'] = raw['Division'].str.upper().isin(['MPRO','FPRO']), one element
coachcox_pro(d) ==
    notna(d) /\ upper(Val(d)) \in {<<"M","P","R","O">>, <<"F","P","R","O">>}

\* one row of df; total_sec is hms_to_sec(overallTime), already known present
coachcox_row(raw, r) ==
    [athlete_name   |-> r["Name"],
     gender         |-> norm_gender(r["Gender"]),
     age_group      |-> extract_ag(r["Division"]),
     age_band       |-> extract_band(extract_ag(r["Division"])),
     country        |-> r["Country"],
     is_pro         |-> Cell(coachcox_pro(r["Division"])),
     event_name     |-> r["location"],
     event_year     |-> to_numeric_cell(r["year"]),
     event_location |-> r["location"],
     event_distance |-> Cell(D1406),
     source         |-> Cell("coachcox"),
     swim_sec       |-> hms_to_sec_cell(r["swimTime"]),
     bike_sec       |-> hms_to_sec_cell(r["bikeTime"]),
     run_sec        |-> hms_to_sec_cell(r["runTime"]),
     total_sec      |-> hms_to_sec_cell(r["overallTime"]),
     overall_rank   |-> to_numeric_cell(r["overallRank"]),
     division_rank  |-> to_numeric_cell(r["divisionRank"]),
     finish_status  |-> str_map(r["finishStatus"], lower_strip),
     athlete_hash   |-> hash_athletes_cell(r["Name"], r["Country"],
                                           norm_gender(r["Gender"]))]

is_finisher(r) == r["finish_status"] = Cell(Finisher)

\* mutant of coachcox_split: no row is filtered
coachcox_split_unfiltered(d) == d

\* mutant of coachcox_split: the quality filter is applied to every row
coachcox_split_filter_all(d) == quality_filter(d)

\* fin = quality_filter(df[finish_status == 'finisher']); nonfin = the other
\* rows (a missing status included); pd.concat([fin, nonfin], ignore_index=True)
coachcox_split(d) ==
    LET fin    == quality_filter(DataFrame(columns_of(d),
                                           SelectSeq(rows_of(d), is_finisher)))
        nonfin == SelectSeq(rows_of(d), LAMBDA r : ~is_finisher(r))
    IN DataFrame(columns_of(d), rows_of(fin) \o nonfin)

\* mutant of coachcox_dropna: rows without a total are kept
coachcox_dropna_keep(d) == d

\* raw = raw.dropna(subset=['total_sec']), on the rows already mapped
coachcox_dropna(d) == dropna(d, "total_sec")

\* results, races, series_csv: the three kaggle csv files, Absent when missing
process_coachcox(results, races, series_csv) ==
    IF results = Absent THEN Raise("FileNotFoundError", "results.csv")
    ELSE IF races = Absent THEN Raise("FileNotFoundError", "races.csv")
    ELSE IF series_csv = Absent THEN Raise("FileNotFoundError", "series.csv")
    ELSE IF first_missing(races, <<"seriesID", "id", "year">>) # 0
         THEN Raise("KeyError", <<"seriesID", "id", "year">>[
                                    first_missing(races, <<"seriesID", "id", "year">>)])
    ELSE IF first_missing(series_csv, <<"id", "location">>) # 0
         THEN Raise("KeyError", <<"id", "location">>[
                                    first_missing(series_csv, <<"id", "location">>)])
    ELSE IF first_missing(results, CoachcoxRequired) # 0
         THEN Raise("KeyError", CoachcoxRequired[first_missing(results, CoachcoxRequired)])
    ELSE LET merged == results_merge_races(results, races_merge_series(races, series_csv))
         IN Ok(ensure_schema(coachcox_split(coachcox_dropna(
                   map_rows(merged, CoachcoxColumns, coachcox_row)))))

(***************************************************************************)
(* process_tristat                                                         *)
(***************************************************************************)
\* dist: '140.6' unless the link names another distance; later tests override
link_distance(link) ==
    IF contains(link, <<"/","o","l","y","m","p","i","c","/">>) THEN <<"o","l","y","m","p","i","c">>
    ELSE IF contains(link, <<"/","s","p","r","i","n","t","/">>) THEN <<"s","p","r","i","n","t">>
    ELSE IF contains(link, <<"/","h","a","l","f","/">>) \/ contains(link, <<"/","7","0",".","3","/">>) THEN D703
    ELSE D1406

\* r'/(\d{4})(?:/|$)': the four digits of the leftmost match
link_year(link) ==
    LET ok(i) == /\ starts_at(link, i, <<"/">>)
                 /\ digits_at(link, i + 1, 4)
                 /\ (i + 4 = Len(link) \/ starts_at(link, i + 5, <<"/">>))
        hits == {i \in 1..Len(link) : ok(i)}
    IN IF hits = {} THEN NaN
       ELSE to_numeric(SubSeq(link, Min(hits) + 1, Min(hits) + 4))

DistanceWords == {<<"7","0",".","3">>, <<"f","u","l","l">>, <<"h","a","l","f">>, <<"s","p","r","i","n","t">>, <<"o","l","y","m","p","i","c">>}

is_slug_char(ch) == is_lower(ch) \/ is_digit(ch) \/ ch = "-"

\* number of slug characters from position j on
RECURSIVE slug_run(_, _)
slug_run(s, j) == IF j <= Len(s) /\ is_slug_char(s[j]) THEN 1 + slug_run(s, j + 1) ELSE 0

\* ([a-z][a-z0-9-]+) at position j: its length, 0 if it does not match
slug_at(s, j) ==
    IF j <= Len(s) /\ is_lower(s[j]) /\ slug_run(s, j + 1) >= 1
    THEN 1 + slug_run(s, j + 1) ELSE 0

\* r'/ironman/(?!70\.3|full|half|sprint|olympic)([a-z][a-z0-9-]+)'
link_loc(link) ==
    LET p == <<"/","i","r","o","n","m","a","n","/">>
        ok(i) == /\ starts_at(link, i, p)
                 /\ \A w \in DistanceWords : ~starts_at(link, i + Len(p), w)
                 /\ slug_at(link, i + Len(p)) > 0
        hits == {i \in 1..Len(link) : ok(i)}
    IN IF hits = {} THEN NaN
       ELSE Cell(SubSeq(link, Min(hits) + Len(p),
                        Min(hits) + Len(p) + slug_at(link, Min(hits) + Len(p)) - 1))

\* r'/ironman/(?:70\.3|full|half|sprint|olympic)/([a-z][a-z0-9-]+)'
link_loc2(link) ==
    LET p == <<"/","i","r","o","n","m","a","n","/">>
        word(i) == {w \in DistanceWords : starts_at(link, i + Len(p), w \o <<"/">>)
                                          /\ slug_at(link, i + Len(p) + Len(w) + 1) > 0}
        ok(i) == starts_at(link, i, p) /\ word(i) # {}
        hits == {i \in 1..Len(link) : ok(i)}
        j == Min(hits) + Len(p) + Len(CHOOSE w \in word(Min(hits)) : TRUE) + 1
    IN IF hits = {} THEN NaN ELSE Cell(SubSeq(link, j, j + slug_at(link, j) - 1))

\* str.title(): a letter is upper-cased after a non-letter, lower-cased after a letter
title(s) == list([i \in 1..Len(s) |->
                IF i = 1 \/ ~is_letter(s[i - 1]) THEN upper_ch(s[i]) ELSE lower_ch(s[i])])

dash_to_space_title(x) == title(str_replace(x, <<"-">>, <<" ">>))

\* loc.fillna(loc2).str.replace('-', ' ').str.title()
link_location(link) ==
    str_map(IF notna(link_loc(link)) THEN link_loc(link) ELSE link_loc2(link),
            dash_to_space_title)

TristatRequired == <<"person_event_swim_time_text", "person_event_t1_time_text",
                     "person_event_cycle_time_text", "person_event_t2_time_text",
                     "person_event_run_time_text", "person_event_finish_time_text",
                     "event_link", "person_event_group", "gender", "person_name",
                     "person_flag">>

TristatColumns == <<"athlete_name", "gender", "age_group", "age_band", "country",
                    "country_iso2", "is_pro", "event_name", "event_year",
                    "event_location", "event_distance", "source", "swim_sec", "t1_sec",
                    "bike_sec", "t2_sec", "run_sec", "total_sec", "finish_status",
                    "athlete_hash">>

\* gender = norm_gender(raw['gender']).fillna(group.str.extract(r'^([MF])'))
tristat_gender(r) ==
    IF notna(norm_gender(r["gender"])) THEN norm_gender(r["gender"])
    ELSE IF notna(r["person_event_group"]) /\ Val(r["person_event_group"]) # <<>>
            /\ Head(Val(r["person_event_group"])) \in {"M", "F"}
         THEN Cell(<<Head(Val(r["person_event_group"]))>>)
    ELSE NaN

tristat_row(raw, r) ==
    LET link == lower(fillna_str(r["event_link"]))
    IN [athlete_name   |-> r["person_name"],
        gender         |-> tristat_gender(r),
        age_group      |-> extract_ag(r["person_event_group"]),
        age_band       |-> extract_band(extract_ag(r["person_event_group"])),
        country        |-> r["person_flag"],
        country_iso2   |-> r["person_flag"],
        is_pro         |-> Cell(notna(r["person_event_group"])
                                /\ contains(upper(Val(r["person_event_group"])), <<"P","R","O">>)),
        event_name     |-> Cell(<<"I","r","o","n","m","a","n"," ">> \o link_distance(link) \o <<" ">>
                                \o fillna_str(link_location(link))),
        event_year     |-> link_year(link),
        event_location |-> link_location(link),
        event_distance |-> Cell(link_distance(link)),
        source         |-> Cell("tristat"),
        swim_sec       |-> hms_to_sec_cell(r["person_event_swim_time_text"]),
        t1_sec         |-> hms_to_sec_cell(r["person_event_t1_time_text"]),
        bike_sec       |-> hms_to_sec_cell(r["person_event_cycle_time_text"]),
        t2_sec         |-> hms_to_sec_cell(r["person_event_t2_time_text"]),
        run_sec        |-> hms_to_sec_cell(r["person_event_run_time_text"]),
        total_sec      |-> hms_to_sec_cell(r["person_event_finish_time_text"]),
        finish_status  |-> Cell(Finisher),
        athlete_hash   |-> hash_athletes_cell(r["person_name"], r["person_flag"],
                                              tristat_gender(r))]

\* raw: Absent when postgres_public_tristat_stat.csv does not exist
process_tristat(raw) ==
    IF raw = Absent THEN Raise("FileNotFoundError", "postgres_public_tristat_stat.csv")
    ELSE IF first_missing(raw, TristatRequired) # 0
         THEN Raise("KeyError", TristatRequired[first_missing(raw, TristatRequired)])
    ELSE Ok(ensure_schema(quality_filter(
                dropna(map_rows(raw, TristatColumns, tristat_row), "total_sec"))))


(***************************************************************************)
(* Numbers: a quotient is kept as a reduced fraction <<n, d>> with d > 0,  *)
(* a standard deviation as the fraction under its square root              *)
(***************************************************************************)
abs(x) == IF x < 0 THEN 0 - x ELSE x

RECURSIVE gcd(_, _)
gcd(a, b) == IF b = 0 THEN a ELSE gcd(b, a % b)

\* n / d for d # 0
frac(n, d) ==
    LET g == gcd(abs(n), abs(d))
    IN IF d > 0 THEN <<n \div g, d \div g>> ELSE <<(0 - n) \div g, (0 - d) \div g>>

frac_less(a, b) == a[1] * b[2] < b[1] * a[2]
frac_positive(a) == a[1] > 0

\* the sum of q[lo..hi], by halves
RECURSIVE sum_range(_, _, _)
sum_range(q, lo, hi) ==
    IF lo > hi THEN 0
    ELSE IF lo = hi THEN q[lo]
    ELSE sum_range(q, lo, (lo + hi) \div 2) + sum_range(q, (lo + hi) \div 2 + 1, hi)

sum_seq(q) == sum_range(q, 1, Len(q))

\* the values of column c that are present, in row order
present_values(rws, c) ==
    LET kept == SelectSeq(rws, LAMBDA r : notna(r[c]))
    IN [i \in 1..Len(kept) |-> Val(kept[i][c])]

\* Series.median(): NaN for no value, the mean of the two middle values for an
\* even count
median(values) ==
    LET q == SortSeq(values, <)
        n == Len(q)
    IN IF n = 0 THEN NaN
       ELSE IF n % 2 = 1 THEN Cell(frac(q[(n + 1) \div 2], 1))
       ELSE Cell(frac(q[n \div 2] + q[n \div 2 + 1], 2))

\* Series.std() (ddof = 1): NaN for fewer than two values, else the square
\* root of (n*Sxx - Sx^2) / (n*(n-1)); the numerator is computed as the sum of
\* the squared differences of all pairs, which equals it
std(values) ==
    LET n == Len(values)
        pairs == [i \in 1..n |-> sum_seq([j \in 1..(i - 1) |->
                                      (values[i] - values[j]) * (values[i] - values[j])])]
    IN IF n < 2 THEN NaN ELSE Cell(<<"sqrt", frac(sum_seq(pairs), n * (n - 1))>>)

(***************************************************************************)
(* Ordering of text (groupby sorts its keys)                               *)
(***************************************************************************)
CharOrder == <<" ", "+", "-", ".", "/",
               "0", "1", "2", "3", "4", "5", "6", "7", "8", "9", ":", "<", ">",
               "A", "B", "C", "D", "E", "F", "G", "H", "I", "J", "K", "L", "M",
               "N", "O", "P", "Q", "R", "S", "T", "U", "V", "W", "X", "Y", "Z", "|",
               "a", "b", "c", "d", "e", "f", "g", "h", "i", "j", "k", "l", "m",
               "n", "o", "p", "q", "r", "s", "t", "u", "v", "w", "x", "y", "z">>

char_rank(ch) == IndexOf(ch, CharOrder)

RECURSIVE text_less(_, _)
text_less(a, b) ==
    IF b = <<>> THEN FALSE
    ELSE IF a = <<>> THEN TRUE
    ELSE IF Head(a) # Head(b) THEN char_rank(Head(a)) < char_rank(Head(b))
    ELSE text_less(Tail(a), Tail(b))

\* tuples of text, compared component by component
RECURSIVE key_less(_, _)
key_less(k1, k2) ==
    IF k1 = <<>> THEN FALSE
    ELSE IF Head(k1) # Head(k2) THEN text_less(Head(k1), Head(k2))
    ELSE key_less(Tail(k1), Tail(k2))

RECURSIVE sorted_keys(_)
sorted_keys(S) ==
    IF S = {} THEN <<>>
    ELSE LET m == CHOOSE k \in S : \A o \in S \ {k} : key_less(k, o)
         IN <<m>> \o sorted_keys(S \ {m})

(***************************************************************************)
(* combine_and_derive                                                      *)
(***************************************************************************)
MIN_COHORT == 30

RECURSIVE concat(_)
\* pd.concat(sources, ignore_index=True): the rows of the tables, in order
concat(tables) ==
    IF tables = <<>> THEN <<>> ELSE rows_of(Head(tables)) \o concat(Tail(tables))

dedup_key(r) == <<r["source"], r["athlete_name"], r["event_year"], r["total_sec"],
                  r["gender"]>>

\* mutant of drop_duplicates: only the second row of a key is dropped
drop_duplicates_second_only(rws) ==
    LET keys == list([i \in 1..Len(rws) |-> dedup_key(rws[i])])
        earlier(i) == {j \in 1..(i - 1) : keys[j] = keys[i]}
        keep == SelectSeq([i \in 1..Len(rws) |-> i],
                          LAMBDA i : Cardinality(earlier(i)) # 1)
    IN list([n \in 1..Len(keep) |-> rws[keep[n]]])

\* mutant of drop_duplicates: the source is not part of the key
drop_duplicates_across_sources(rws) ==
    LET keys == list([i \in 1..Len(rws) |-> Tail(dedup_key(rws[i]))])
        keep == SelectSeq([i \in 1..Len(rws) |-> i],
                          LAMBDA i : \A j \in 1..(i - 1) : keys[j] # keys[i])
    IN list([n \in 1..Len(keep) |-> rws[keep[n]]])

\* df.drop_duplicates(subset=dedup, keep='first'): a row is dropped when an
\* earlier row has the same key, missing values comparing equal
drop_duplicates(rws) ==
    LET keys == list([i \in 1..Len(rws) |-> dedup_key(rws[i])])
        keep == SelectSeq([i \in 1..Len(rws) |-> i],
                          LAMBDA i : \A j \in 1..(i - 1) : keys[j] # keys[i])
    IN list([n \in 1..Len(keep) |-> rws[keep[n]]])

\* np.where((tot > 0) & seg.notna(), seg / tot, nan)
ratio(num, den) ==
    IF notna(den) /\ Val(den) > 0 /\ notna(num) THEN Cell(frac(Val(num), Val(den)))
    ELSE NaN

cell_sum(a, b) == IF isna(a) \/ isna(b) THEN NaN ELSE Cell(Val(a) + Val(b))

gc_cols == <<"gender", "age_group", "event_distance">>
cohort_key(r) == <<r["gender"], r["age_group"], r["event_distance"]>>
key_present(r) == notna(r["gender"]) /\ notna(r["age_group"]) /\ notna(r["event_distance"])
key_text(k) == <<Val(k[1]), Val(k[2]), Val(k[3])>>

\* mutant of is_amateur: the professionals are taken instead
is_amateur_inverted(r) == r["is_pro"] = Cell(TRUE)

\* ag = df[df['is_pro'] != True]
is_amateur(r) == r["is_pro"] # Cell(TRUE)

CohortColumns == <<"gender", "age_group", "event_distance", "c_med_total",
                   "c_std_total", "c_med_swim", "c_med_bike", "c_med_run", "c_count">>

\* one row of ag.groupby(gc_cols).agg(...), for the rows grp of one key
cohort_row(k, grp) ==
    [gender         |-> Cell(k[1]),
     age_group      |-> Cell(k[2]),
     event_distance |-> Cell(k[3]),
     c_med_total    |-> median(present_values(grp, "total_sec")),
     c_std_total    |-> std(present_values(grp, "total_sec")),
     c_med_swim     |-> median(present_values(grp, "swim_sec")),
     c_med_bike     |-> median(present_values(grp, "bike_sec")),
     c_med_run      |-> median(present_values(grp, "run_sec")),
     c_count        |-> Cell(Len(present_values(grp, "total_sec")))]

\* mutant of cohort_floor: the floor keeps a cohort of MIN_COHORT - 1 samples
cohort_floor_off_by_one(c) == Val(c["c_count"]) >= MIN_COHORT - 1

\* cohort[cohort['c_count'] >= 30]
cohort_floor(c) == Val(c["c_count"]) >= MIN_COHORT

\* ag.groupby(gc_cols).agg(...) cut at the sample floor: the groups of the
\* rows with a complete key (groupby drops keys with a missing part), sorted
\* by key and aggregated
cohort_groups(rws) ==
    LET ag   == SelectSeq(rws, key_present)
        keys == sorted_keys({key_text(cohort_key(ag[i])) : i \in 1..Len(ag)})
        all  == [n \in 1..Len(keys) |->
                    cohort_row(keys[n],
                               SelectSeq(ag, LAMBDA r : key_text(cohort_key(r)) = keys[n]))]
    IN DataFrame(CohortColumns, SelectSeq(all, cohort_floor))

\* the cohort table of the amateur rows
cohort_stats(rws) == cohort_groups(SelectSeq(rws, is_amateur))

\* df.merge(cohort, on=gc_cols, how='left'): the cohort rows of r, one at most
cohort_of(r, coh) == SelectSeq(rows_of(coh), LAMBDA c : cohort_key(c) = cohort_key(r))

\* mutant of over_median: only the amateur rows get a value
over_median_amateur_only(seg, r, coh, med) ==
    LET c == cohort_of(r, coh)
    IN IF c # <<>> /\ notna(c[1][med]) /\ frac_positive(Val(c[1][med])) /\ notna(seg)
          /\ is_amateur(r)
       THEN Cell(frac(Val(seg) * Val(c[1][med])[2], Val(c[1][med])[1]))
       ELSE NaN

\* np.where((c_med > 0) & seg.notna(), seg / c_med, nan)
over_median(seg, r, coh, med) ==
    LET c == cohort_of(r, coh)
    IN IF c # <<>> /\ notna(c[1][med]) /\ frac_positive(Val(c[1][med])) /\ notna(seg)
       THEN Cell(frac(Val(seg) * Val(c[1][med])[2], Val(c[1][med])[1]))
       ELSE NaN

\* mutant of cohort_percentile: the rank is taken among all rows
cohort_percentile_global(r, rws) ==
    LET grp  == present_values(rws, "total_sec")
        n    == Len(grp)
        less == Cardinality({i \in 1..n : grp[i] < Val(r["total_sec"])})
        leq  == Cardinality({i \in 1..n : grp[i] <= Val(r["total_sec"])})
    IN IF key_present(r) /\ notna(r["total_sec"]) /\ n >= MIN_COHORT
       THEN Cell(frac(less + 1 + leq, 2 * n))
       ELSE NaN

\* ranks = grp.loc[v, 'total_sec'].rank(pct=True) for the groups of all rows
\* with a complete key and at least 30 totals: the average rank over the count
cohort_percentile(r, rws) ==
    LET grp == present_values(SelectSeq(rws, LAMBDA o : key_present(o)
                                             /\ cohort_key(o) = cohort_key(r)),
                              "total_sec")
        n    == Len(grp)
        less == Cardinality({i \in 1..n : grp[i] < Val(r["total_sec"])})
        leq  == Cardinality({i \in 1..n : grp[i] <= Val(r["total_sec"])})
    IN IF key_present(r) /\ notna(r["total_sec"]) /\ n >= MIN_COHORT
       THEN Cell(frac(less + 1 + leq, 2 * n))
       ELSE NaN

FactColumns == SCHEMA \o DERIVED

\* mutant of fact_row: the key columns are taken from the cohort table, so a
\* row without cohort statistics loses them
fact_row_keys_from_cohort(r, rws, coh) ==
    [c \in SeqToSet(FactColumns) |->
        IF c \in SeqToSet(gc_cols) /\ cohort_of(r, coh) = <<>> THEN NaN
        ELSE IF c \in SchemaSet THEN r[c]
        ELSE IF c = "swim_pct" THEN ratio(r["swim_sec"], r["total_sec"])
        ELSE IF c = "bike_pct" THEN ratio(r["bike_sec"], r["total_sec"])
        ELSE IF c = "run_pct" THEN ratio(r["run_sec"], r["total_sec"])
        ELSE IF c = "transition_pct"
             THEN ratio(cell_sum(r["t1_sec"], r["t2_sec"]), r["total_sec"])
        ELSE IF c = "bike_run_ratio" THEN ratio(r["bike_sec"], r["run_sec"])
        ELSE IF c = "fade_ratio" THEN over_median(r["run_sec"], r, coh, "c_med_run")
        ELSE IF c = "implied_bike_if" THEN over_median(r["bike_sec"], r, coh, "c_med_bike")
        ELSE cohort_percentile(r, rws)]

\* one row of athlete_race.csv
fact_row(r, rws, coh) ==
    [c \in SeqToSet(FactColumns) |->
        IF c \in SchemaSet THEN r[c]
        ELSE IF c = "swim_pct" THEN ratio(r["swim_sec"], r["total_sec"])
        ELSE IF c = "bike_pct" THEN ratio(r["bike_sec"], r["total_sec"])
        ELSE IF c = "run_pct" THEN ratio(r["run_sec"], r["total_sec"])
        ELSE IF c = "transition_pct"
             THEN ratio(cell_sum(r["t1_sec"], r["t2_sec"]), r["total_sec"])
        ELSE IF c = "bike_run_ratio" THEN ratio(r["bike_sec"], r["run_sec"])
        ELSE IF c = "fade_ratio" THEN over_median(r["run_sec"], r, coh, "c_med_run")
        ELSE IF c = "implied_bike_if" THEN over_median(r["bike_sec"], r, coh, "c_med_bike")
        ELSE cohort_percentile(r, rws)]

\* the two tables combine_and_derive writes: <<athlete_race, cohort_stats>>
combine_and_derive(srcs) ==
    LET rws == drop_duplicates(concat(srcs))
        coh == cohort_stats(rws)
    IN << DataFrame(FactColumns, [i \in 1..Len(rws) |-> fact_row(rws[i], rws, coh)]),
          coh >>


(***************************************************************************)
(* build_profiles                                                          *)
(***************************************************************************)
\* text that pd.read_csv reads back as a missing value (the empty field and
\* the default NA spellings that can occur here)
csv_na_text == { <<>>, <<"n","a","n">>, <<"N","a","N">>, <<"N","A">>, <<"N","o","n","e">>, <<"n","u","l","l">>, <<"N","U","L","L">>, <<"<","N","A",">">> }

\* text that pd.read_csv reads as a number: digits with at most one '.'
csv_numeric_text(x) ==
    /\ \E i \in 1..Len(x) : is_digit(x[i])
    /\ \A i \in 1..Len(x) : is_digit(x[i]) \/ x[i] = "."
    /\ Cardinality({i \in 1..Len(x) : x[i] = "."}) <= 1

\* a text cell written by to_csv and read back by read_csv
csv_text(c) == IF notna(c) /\ Val(c) \in csv_na_text THEN NaN ELSE c

\* read_csv infers a float column when every value that is present is numeric
csv_float_column(rws, c) ==
    \A i \in 1..Len(rws) : notna(csv_text(rws[i][c])) => csv_numeric_text(Val(rws[i][c]))

ProfileInputColumns == <<"athlete_hash", "athlete_name", "gender", "country",
                         "age_group", "event_year", "event_distance", "source",
                         "swim_sec", "bike_sec", "run_sec", "total_sec", "fade_ratio",
                         "finish_status">>

TextInputColumns == {"athlete_name", "gender", "country", "age_group",
                     "event_distance", "finish_status"}

\* pd.read_csv(athlete_race.csv, usecols=cols): the rows as read back
read_fact(fct) ==
    [i \in 1..len(fct) |->
        [c \in SeqToSet(ProfileInputColumns) |->
            IF c \in TextInputColumns THEN csv_text(rows_of(fct)[i][c])
            ELSE rows_of(fct)[i][c]]]

\* the first value of a column that is present (GroupBy 'first'), else NaN
first_present(grp, c) ==
    LET kept == SelectSeq(grp, LAMBDA r : notna(r[c]))
    IN IF kept = <<>> THEN NaN ELSE kept[1][c]

col_min(grp, c) ==
    IF present_values(grp, c) = <<>> THEN NaN
    ELSE Cell(Min(SeqToSet(present_values(grp, c))))

col_max(grp, c) ==
    IF present_values(grp, c) = <<>> THEN NaN
    ELSE Cell(Max(SeqToSet(present_values(grp, c))))

\* GroupBy mean of an integer column: NaN for no value
col_mean(grp, c) ==
    IF present_values(grp, c) = <<>> THEN NaN
    ELSE Cell(frac(sum_seq(present_values(grp, c)), Len(present_values(grp, c))))

\* x.mode().iloc[0]: the most frequent present value, the smallest of them on
\* a tie; NaN when no value is present
mode_text(grp, c) ==
    LET vals == present_values(grp, c)
        n(v) == Cardinality({i \in 1..Len(vals) : vals[i] = v})
        top  == {v \in SeqToSet(vals) : \A o \in SeqToSet(vals) : n(o) <= n(v)}
    IN IF vals = <<>> THEN NaN
       ELSE Cell(CHOOSE v \in top : \A o \in top \ {v} : text_less(v, o))

\* ','.join(sorted(x.dropna().unique()))
RECURSIVE join_comma(_)
join_comma(q) ==
    IF q = <<>> THEN <<>>
    ELSE IF Len(q) = 1 THEN q[1]
    ELSE q[1] \o <<",">> \o join_comma(Tail(q))

distances_raced(grp) ==
    LET ds == {<<d>> : d \in SeqToSet(present_values(grp, "event_distance"))}
        q  == sorted_keys(ds)
    IN Cell(join_comma([i \in 1..Len(q) |-> q[i][1]]))

\* mutant of improvement_slope: Sxy / Sxx without the products of the sums
improvement_slope_uncentred(grp) ==
    LET v   == SelectSeq(grp, LAMBDA r : notna(r["event_year"]) /\ notna(r["total_sec"]))
        n   == Len(v)
        x0  == Min({Val(v[i]["event_year"]) : i \in 1..n})
        y0  == Min({Val(v[i]["total_sec"]) : i \in 1..n})
        sxx == sum_seq([i \in 1..n |-> (Val(v[i]["event_year"]) - x0)
                                         * (Val(v[i]["event_year"]) - x0)])
        sxy == sum_seq([i \in 1..n |-> (Val(v[i]["event_year"]) - x0)
                                         * (Val(v[i]["total_sec"]) - y0)])
    IN IF n >= 2 /\ sxx # 0 THEN Cell(frac(sxy, sxx)) ELSE NaN

\* closed-form least squares over the rows with year and total; the sums are
\* taken on the values less their minima, which leaves n*Sxy - Sx*Sy and
\* n*Sxx - Sx^2 unchanged
improvement_slope(grp) ==
    LET v   == SelectSeq(grp, LAMBDA r : notna(r["event_year"]) /\ notna(r["total_sec"]))
        n   == Len(v)
        x0  == Min({Val(v[i]["event_year"]) : i \in 1..n})
        y0  == Min({Val(v[i]["total_sec"]) : i \in 1..n})
        x   == [i \in 1..n |-> Val(v[i]["event_year"]) - x0]
        y   == [i \in 1..n |-> Val(v[i]["total_sec"]) - y0]
        sx  == sum_seq(x)
        sy  == sum_seq(y)
        sxx == sum_seq([i \in 1..n |-> x[i] * x[i]])
        sxy == sum_seq([i \in 1..n |-> x[i] * y[i]])
        denom == n * sxx - sx * sx
    IN IF n >= 2 /\ denom # 0 THEN Cell(frac(n * sxy - sx * sy, denom)) ELSE NaN

\* a - b for fractions
frac_sub(a, b) == frac(a[1] * b[2] - b[1] * a[2], a[2] * b[2])

STD_FLOOR == 300

\* mutant of clip_std: the deviation is taken as it is
clip_std_unfloored(sd) == Val(sd)

\* c_std_total.clip(lower=300), as the value under the square root
clip_std(sd) ==
    IF frac_less(Val(sd)[2], <<STD_FLOOR * STD_FLOOR, 1>>)
    THEN <<"sqrt", <<STD_FLOOR * STD_FLOOR, 1>>>> ELSE Val(sd)

\* -(avg - c_med) / sf: the numerator c_med - avg over the floored deviation
strength_z(avg, c, med) ==
    IF c = <<>> \/ isna(avg) THEN NaN
    ELSE IF isna(c[1][med]) \/ isna(c[1]["c_std_total"]) THEN NaN
    ELSE Cell(<<frac_sub(Val(c[1][med]), Val(avg)), clip_std(c[1]["c_std_total"])>>)

\* disc[np.nanargmax(zv[r])] for a row with a z-score: the first discipline
\* with the largest z-score; the z-scores of a row share their divisor
dominant_discipline(zs) ==
    LET have == {i \in 1..3 : notna(zs[i])}
        best == CHOOSE i \in have :
                   /\ \A j \in have : ~frac_less(Val(zs[i])[1], Val(zs[j])[1])
                   /\ \A j \in have : j < i => frac_less(Val(zs[j])[1], Val(zs[i])[1])
    IN Cell(<<"swim", "bike", "run">>[best])

\* the cohort rows of an athlete's modal (gender, age_group, event_distance)
modal_cohort(grp, coh) ==
    cohort_of([gender         |-> first_present(grp, "gender"),
               age_group      |-> mode_text(grp, "age_group"),
               event_distance |-> mode_text(grp, "event_distance")], coh)

z_scores(grp, coh) ==
    LET c == modal_cohort(grp, coh)
    IN << strength_z(col_mean(grp, "swim_sec"), c, "c_med_swim"),
          strength_z(col_mean(grp, "bike_sec"), c, "c_med_bike"),
          strength_z(col_mean(grp, "run_sec"), c, "c_med_run") >>

\* mutant of coachcox_rows: the rows of every source are taken
coachcox_rows_any(grp) == grp

\* cc = named[named['source'] == 'coachcox'], for the rows of one athlete
coachcox_rows(grp) == SelectSeq(grp, LAMBDA r : r["source"] = Cell("coachcox"))

\* dnf_count and dnf_rate of one athlete from the coachcox rows cc of the
\* athlete, given whether the table has any coachcox row of a named athlete
dnf_of(cc, any_cc) ==
    LET count == Len(SelectSeq(cc, LAMBDA r : r["finish_status"] # Cell(Finisher)))
        cc_n  == Len(SelectSeq(cc, LAMBDA r : notna(r["finish_status"])))
    IN IF ~any_cc \/ cc = <<>> THEN <<Cell(0), Cell(<<0, 1>>)>>
       ELSE IF cc_n = 0 THEN <<Cell(count), Cell(<<1, 0>>)>>
       ELSE <<Cell(count), Cell(frac(count, cc_n))>>

ProfileColumns == <<"athlete_hash", "athlete_name", "gender", "country",
                    "total_races", "years_active", "distances_raced",
                    "pb_swim_sec", "pb_bike_sec", "pb_run_sec", "pb_total_sec",
                    "first_race_year", "latest_race_year",
                    "improvement_slope", "consistency_cv",
                    "swim_strength_z", "bike_strength_z", "run_strength_z",
                    "dominant_discipline", "dnf_count", "dnf_rate", "mean_fade">>

\* one row of athlete_profile.csv, for the rows grp of one athlete_hash
profile_row(h, grp, coh, any_cc) ==
    LET zs     == z_scores(grp, coh)
        cc     == coachcox_rows(grp)
        races  == Len(present_values(grp, "total_sec"))
        first  == col_min(grp, "event_year")
        latest == col_max(grp, "event_year")
        totals == present_values(grp, "total_sec")
    IN [athlete_hash        |-> h,
        athlete_name        |-> first_present(grp, "athlete_name"),
        gender              |-> first_present(grp, "gender"),
        country             |-> first_present(grp, "country"),
        total_races         |-> Cell(races),
        years_active        |-> IF isna(first) THEN NaN
                                ELSE Cell(Val(latest) - Val(first) + 1),
        distances_raced     |-> distances_raced(grp),
        pb_swim_sec         |-> col_min(grp, "swim_sec"),
        pb_bike_sec         |-> col_min(grp, "bike_sec"),
        pb_run_sec          |-> col_min(grp, "run_sec"),
        pb_total_sec        |-> col_min(grp, "total_sec"),
        first_race_year     |-> first,
        latest_race_year    |-> latest,
        improvement_slope   |-> improvement_slope(grp),
        consistency_cv      |-> IF races >= 2
                                THEN Cell(<<"div", Val(std(totals)),
                                            Val(col_mean(grp, "total_sec"))>>)
                                ELSE NaN,
        swim_strength_z     |-> zs[1],
        bike_strength_z     |-> zs[2],
        run_strength_z      |-> zs[3],
        dominant_discipline |-> dominant_discipline(zs),
        dnf_count           |-> dnf_of(cc, any_cc)[1],
        dnf_rate            |-> dnf_of(cc, any_cc)[2],
        mean_fade           |-> IF present_values(grp, "fade_ratio") = <<>> THEN NaN
                                ELSE Cell(<<"mean", present_values(grp, "fade_ratio")>>)]

\* mutant of athletes: one entry per record
athletes_per_record(named) == [i \in 1..Len(named) |-> named[i]["athlete_hash"]]

\* the distinct athlete_hash values of the named rows, in order of appearance
\* (groupby orders them by digest, which the model does not compute)
RECURSIVE athletes(_)
athletes(named) ==
    IF named = <<>> THEN <<>>
    ELSE <<Head(named)["athlete_hash"]>>
         \o athletes(SelectSeq(Tail(named),
                               LAMBDA r : r["athlete_hash"] # Head(named)["athlete_hash"]))

\* mutant of named_rows: every row is taken, identity or not
named_rows_all(rws) == rws

\* named = df[df['athlete_hash'].notna()]
named_rows(rws) == SelectSeq(rws, LAMBDA r : notna(r["athlete_hash"]))

\* fct: athlete_race.csv as written; coh: the cohort table combine returned
build_profiles(fct, coh) ==
    LET rws    == read_fact(fct)
        named  == named_rows(rws)
        hs     == athletes(named)
        grp(h) == SelectSeq(named, LAMBDA r : r["athlete_hash"] = h)
        any_cc == \E i \in 1..Len(named) : named[i]["source"] = Cell("coachcox")
    IN IF /\ csv_float_column(rws, "event_distance")
          /\ \E i \in 1..Len(named) : notna(named[i]["event_distance"])
       THEN Raise("TypeError", "sequence item 0: expected str instance, float found")
       ELSE IF \E i \in 1..Len(hs) :
                  \/ csv_float_column(rws, "event_distance")
                  \/ \A k \in 1..3 : isna(z_scores(grp(hs[i]), coh)[k])
       THEN Raise("ValueError", "All-NaN slice encountered")
       ELSE Ok(DataFrame(ProfileColumns,
                         [i \in 1..Len(hs) |-> profile_row(hs[i], grp(hs[i]), coh, any_cc)]))


(***************************************************************************)
(* main                                                                    *)
(***************************************************************************)
NoError == <<"none">>

\* mutant of to_csv: a file that exists is left as it is
to_csv_keep_existing(existing, table) == IF existing = Absent THEN table ELSE existing

\* df.to_csv(path, index=False): the file holds the table, whatever it held
to_csv(existing, table) == table

\* mutant of Step: the table a processor returned is not appended
Step_result_dropped(res, next) ==
    IF raised(res)
    THEN /\ pc' = "aborted"
         /\ error' = res[2]
         /\ UNCHANGED <<sources, fact, cohort, profile>>
    ELSE /\ pc' = next
         /\ UNCHANGED <<sources, error, fact, cohort, profile>>

\* one iteration of main's loop over the processors: the result is appended
\* to sources, or the exception ends the run
Step(res, next) ==
    IF raised(res)
    THEN /\ pc' = "aborted"
         /\ error' = res[2]
         /\ UNCHANGED <<sources, fact, cohort, profile>>
    ELSE /\ pc' = next
         /\ sources' = Append(sources, res[2])
         /\ UNCHANGED <<error, fact, cohort, profile>>

Process_t100 ==
    /\ pc = "t100"
    /\ Step(process_t100(scraped.t100), "wiki")
    /\ UNCHANGED <<scraped, history, utilVars>>

Process_wiki ==
    /\ pc = "wiki"
    /\ Step(process_wiki(scraped.wiki), "df6")
    /\ UNCHANGED <<scraped, history, utilVars>>

Process_df6 ==
    /\ pc = "df6"
    /\ Step(process_df6(scraped.df6), "coachcox")
    /\ UNCHANGED <<scraped, history, utilVars>>

Process_coachcox ==
    /\ pc = "coachcox"
    /\ Step(process_coachcox(scraped.coachcox[1], scraped.coachcox[2], scraped.coachcox[3]),
            "tristat")
    /\ UNCHANGED <<scraped, history, utilVars>>

Process_tristat ==
    /\ pc = "tristat"
    /\ Step(process_tristat(scraped.tristat), "combine")
    /\ UNCHANGED <<scraped, history, utilVars>>

\* cohort = combine_and_derive(sources): writes athlete_race.csv, then
\* cohort_stats.csv
Combine ==
    /\ pc = "combine"
    /\ LET res == combine_and_derive(sources)
       IN fact' = to_csv(fact, res[1]) /\ cohort' = to_csv(cohort, res[2])
    /\ pc' = "profiles"
    /\ UNCHANGED <<scraped, sources, profile, error, history, utilVars>>

\* build_profiles(cohort): reads athlete_race.csv back, writes
\* athlete_profile.csv unless an aggregate raises
BuildProfiles ==
    /\ pc = "profiles"
    /\ LET res == build_profiles(fact, cohort)
       IN IF raised(res)
          THEN pc' = "aborted" /\ error' = res[2] /\ UNCHANGED profile
          ELSE pc' = "done" /\ profile' = to_csv(profile, res[2]) /\ UNCHANGED error
    /\ UNCHANGED <<scraped, sources, fact, cohort, history, utilVars>>

Next ==
    \/ Process_t100
    \/ Process_wiki
    \/ Process_df6
    \/ Process_coachcox
    \/ Process_tristat
    \/ Combine
    \/ BuildProfiles

(***************************************************************************)
(* Raw files: every cell of a csv or json file is text or missing          *)
(***************************************************************************)
\* str(n) for n >= 0
RECURSIVE str_of(_)
str_of(n) == IF n < 10 THEN <<DigitChars[n + 1]>>
             ELSE str_of(n \div 10) \o <<DigitChars[(n % 10) + 1]>>

two_digits(n) == <<DigitChars[(n \div 10) + 1], DigitChars[(n % 10) + 1]>>

\* a duration written H:MM:SS
hms_text(sec) == str_of(sec \div 3600) \o <<":">> \o two_digits((sec % 3600) \div 60)
                 \o <<":">> \o two_digits(sec % 60)

num(n) == Cell(str_of(n))
txt(x) == Cell(x)

without(cols, c) == SelectSeq(cols, LAMBDA x : x # c)

\* the table with column c removed
drop_column(t, c) ==
    DataFrame(without(columns_of(t), c),
              [i \in 1..len(t) |-> [x \in SeqToSet(without(columns_of(t), c)) |->
                                       rows_of(t)[i][x]]])

T100FileColumns == <<"athlete_name", "gender", "age_group", "country", "event_name",
                     "event_year", "event_distance", "swim_sec", "t1_sec", "bike_sec",
                     "t2_sec", "run_sec", "total_sec", "overall_rank", "gender_rank",
                     "age_group_rank">>

\* a result of 15000 s + extra: swim 1800, bike 8000, run 4800 + extra
T100Raw(name, gender, ag, dist, extra) ==
    [athlete_name |-> name, gender |-> gender, age_group |-> ag,
     country |-> txt(<<"U","S">>), event_name |-> txt(<<"M","i","a","m","i"," ","T","1","0","0">>),
     event_year |-> num(2024), event_distance |-> dist,
     swim_sec |-> num(1800), t1_sec |-> num(200), bike_sec |-> num(8000),
     t2_sec |-> num(200), run_sec |-> num(4800 + extra), total_sec |-> num(15000 + extra),
     overall_rank |-> num(1), gender_rank |-> num(1), age_group_rank |-> NaN]

\* professionals without an age group, one of them twice, and a nameless row
T100Open ==
    DataFrame(T100FileColumns,
              << T100Raw(txt(<<"A","n","n">>), txt(<<"F">>), NaN, txt(<<"1","0","0","k","m">>), 0),
                 T100Raw(txt(<<"A","n","n">>), txt(<<"F">>), NaN, txt(<<"1","0","0","k","m">>), 0),
                 T100Raw(txt(<<" ">>), txt(<<"F">>), NaN, txt(<<"1","0","0","k","m">>), 60),
                 T100Raw(txt(<<" ","a","n","n"," ">>), txt(<<"f">>), NaN, txt(<<"1","0","0","k","m">>), 120) >>)

\* professionals who carry the key of an age-group cohort, one of them three
\* times, and a nameless row
T100InCohort ==
    DataFrame(T100FileColumns,
              << T100Raw(txt(<<"A","n","n">>), txt(<<"F">>), txt(<<"3","5","-","3","9">>), txt(D703), 0),
                 T100Raw(txt(<<"A","n","n">>), txt(<<"F">>), txt(<<"3","5","-","3","9">>), txt(D703), 0),
                 T100Raw(txt(<<"A","n","n">>), txt(<<"F">>), txt(<<"3","5","-","3","9">>), txt(D703), 0),
                 T100Raw(NaN, txt(<<"F">>), txt(<<"3","5","-","3","9">>), txt(<<"1","0","0","k","m">>), 60) >>)

T100Files == {Absent, T100Open, T100InCohort,
              drop_column(T100InCohort, "gender"),
              drop_column(T100Open, "total_sec")}

WikiFileColumns == <<"athlete_name", "gender", "age_group", "event_name", "event_year",
                     "event_distance", "swim_sec", "bike_sec", "run_sec", "total_sec">>

WikiRaw(name, gender, ag, total) ==
    [athlete_name |-> name, gender |-> gender, age_group |-> ag,
     event_name |-> txt(<<"K","o","n","a">>), event_year |-> num(2019), event_distance |-> txt(D703),
     swim_sec |-> num(3000), bike_sec |-> num(15000), run_sec |-> num(10000),
     total_sec |-> total]

WikiRecords ==
    DataFrame(WikiFileColumns,
              << WikiRaw(txt(<<"B","o">>), txt(<<"f","e","m","a","l","e">>), txt(<<"3","5","-","3","9">>), num(28500)),
                 WikiRaw(txt(<<>>), txt(<<"f","e","m","a","l","e">>), txt(<<"3","5","-","3","9">>), num(28600)),
                 WikiRaw(NaN, txt(<<"f","e","m","a","l","e">>), txt(<<"3","5","-","3","9">>), num(28700)),
                 WikiRaw(txt(<<"B","o">>), txt(<<"f","e","m","a","l","e">>), txt(<<"3","5","-","3","9">>), NaN) >>)

WikiFiles == {Absent, WikiRecords,
              drop_column(WikiRecords, "event_name"),
              drop_column(WikiRecords, "total_sec")}

Df6FileColumns == Df6Required

\* an age-group result of 18000 s + extra
Df6Raw(gender, extra) ==
    [Gender |-> gender, AgeGroup |-> txt(<<"3","5","-","3","9">>), AgeBand |-> num(35),
     Country |-> txt(<<"U","S">>), CountryISO2 |-> txt(<<"U","S">>),
     EventLocation |-> txt(<<"K","o","n","a">>), EventYear |-> num(2019),
     SwimTime |-> num(2000), Transition1Time |-> num(250), BikeTime |-> num(9500),
     Transition2Time |-> num(250), RunTime |-> num(6000 + extra),
     FinishTime |-> num(18000 + extra)]

\* n results of the cohort (F, 35-39, 70.3) with distinct finish times
Df6Block(n) == DataFrame(Df6FileColumns, [i \in 1..n |-> Df6Raw(txt(<<"F">>), i)])

MaxExtra == 1
BlockSizes == {0} \cup ((MIN_COHORT - 1)..(MIN_COHORT + MaxExtra))

Df6Files == {Absent, drop_column(Df6Block(1), "FinishTime")}
            \cup {Df6Block(n) : n \in BlockSizes}


ResultsFileColumns == <<"Name", "Gender", "Division", "Country", "raceID", "swimTime",
                        "bikeTime", "runTime", "overallTime", "overallRank",
                        "divisionRank", "finishStatus">>

\* a result of athlete Cy in race 1; overall is the text of the overallTime cell
ResultRaw(division, overall, status, extra) ==
    [Name |-> txt(<<"C","y">>), Gender |-> txt(<<"M","a","l","e">>), Division |-> txt(division),
     Country |-> txt(<<"U","S">>), raceID |-> num(1),
     swimTime |-> txt(hms_text(4000)), bikeTime |-> txt(hms_text(19000)),
     runTime |-> txt(hms_text(12500 + extra)), overallTime |-> overall,
     overallRank |-> num(5), divisionRank |-> num(2), finishStatus |-> status]

RacesFile == DataFrame(<<"id", "seriesID", "year">>,
                       << [id |-> num(1), seriesID |-> num(7), year |-> num(2019)] >>)

SeriesFile == DataFrame(<<"id", "location">>,
                        << [id |-> num(7), location |-> txt(<<"k","o","n","a">>)] >>)

\* n finishes of one age-group athlete with distinct times, then two
\* abandoned races, one of them with a recorded time
ResultsBlock(n) ==
    DataFrame(ResultsFileColumns,
              [i \in 1..n |-> ResultRaw(<<"M","4","0","-","4","4">>, txt(hms_text(36000 + i)),
                                        txt(<<"F","i","n","i","s","h","e","r">>), i)]
              \o (IF n = 0 THEN <<>>
                  ELSE << ResultRaw(<<"M","4","0","-","4","4">>, txt(hms_text(35800)), txt(<<"D","N","F">>), 0),
                          ResultRaw(<<"M","4","0","-","4","4">>, txt(<<"D","N","F">>), txt(<<"D","N","F">>), 0) >>))

OverallChoices == {txt(hms_text(36000)), txt(hms_text(29000)), txt(<<"D","N","F">>)}
StatusChoices  == {txt(<<"F","i","n","i","s","h","e","r">>), txt(<<" ","D","N","F">>), NaN}

ResultChoices == {ResultRaw(<<"M","4","0","-","4","4">>, o, st, 0) : o \in OverallChoices, st \in StatusChoices}

MaxResults == 2

\* every results.csv of 1..MaxResults rows over the choices
ResultsTables ==
    UNION {{DataFrame(ResultsFileColumns, q) : q \in [1..n -> ResultChoices]} : n \in 1..MaxResults}

\* a professional-division entry of the first finish of ResultsBlock: the same
\* athlete, race, gender and time
ProTwin == ResultRaw(<<"M","P","R","O">>, txt(hms_text(36001)),
                     txt(<<"F","i","n","i","s","h","e","r">>), 1)

\* a results.csv whose age-group cohort holds exactly MIN_COHORT totals,
\* with the professional entry before or after the age-group rows
ResultsWithPro ==
    {DataFrame(ResultsFileColumns, <<ProTwin>> \o rows_of(ResultsBlock(MIN_COHORT - 1))),
     DataFrame(ResultsFileColumns, rows_of(ResultsBlock(MIN_COHORT - 1)) \o <<ProTwin>>)}

\* <<results.csv, races.csv, series.csv>>
CoachcoxFiles == {<<Absent, RacesFile, SeriesFile>>,
                  <<ResultsBlock(0), Absent, SeriesFile>>,
                  <<drop_column(ResultsBlock(1), "finishStatus"), RacesFile, SeriesFile>>,
                  <<ResultsBlock(0), RacesFile, SeriesFile>>,
                  <<ResultsBlock(MIN_COHORT), RacesFile, SeriesFile>>}

TristatFileColumns == <<"person_name", "gender", "person_flag", "person_event_group",
                        "event_link", "person_event_swim_time_text",
                        "person_event_t1_time_text", "person_event_cycle_time_text",
                        "person_event_t2_time_text", "person_event_run_time_text",
                        "person_event_finish_time_text">>

\* a half-distance result of 18000 s + extra
TristatHalf(name, group, link, extra) ==
    [person_name |-> name, gender |-> txt(<<"f","e","m","a","l","e">>), person_flag |-> txt(<<"U","S">>),
     person_event_group |-> txt(group), event_link |-> txt(link),
     person_event_swim_time_text |-> txt(hms_text(2000)),
     person_event_t1_time_text |-> txt(hms_text(250)),
     person_event_cycle_time_text |-> txt(hms_text(9500)),
     person_event_t2_time_text |-> txt(hms_text(250)),
     person_event_run_time_text |-> txt(hms_text(6000 + extra)),
     person_event_finish_time_text |-> txt(hms_text(18000 + extra))]

\* a sprint result of 4200 s
TristatSprint(name, group, link) ==
    [person_name |-> name, gender |-> NaN, person_flag |-> txt(<<"U","S">>),
     person_event_group |-> txt(group), event_link |-> txt(link),
     person_event_swim_time_text |-> txt(hms_text(480)),
     person_event_t1_time_text |-> txt(hms_text(60)),
     person_event_cycle_time_text |-> txt(hms_text(2100)),
     person_event_t2_time_text |-> txt(hms_text(60)),
     person_event_run_time_text |-> txt(hms_text(1500)),
     person_event_finish_time_text |-> txt(hms_text(4200))]

\* two races of the age-group athlete Di, the first listed twice
TristatDi ==
    << TristatHalf(txt(<<"D","i">>), <<"F","3","5","-","3","9">>, <<"/","i","r","o","n","m","a","n","/","7","0",".","3","/","n","i","c","e","/","2","0","1","9">>, 600),
       TristatHalf(txt(<<"D","i">>), <<"F","3","5","-","3","9">>, <<"/","i","r","o","n","m","a","n","/","7","0",".","3","/","n","i","c","e","/","2","0","1","9">>, 600),
       TristatHalf(txt(<<"D","i">>), <<"F","3","5","-","3","9">>, <<"/","I","r","o","n","m","a","n","/","7","0",".","3","/","N","i","c","e","/","2","0","2","1">>, 300) >>

\* results without a name: two half-distance races and a sprint
TristatNameless ==
    << TristatHalf(NaN, <<"F","4","0","-","4","4">>, <<"/","I","r","o","n","m","a","n","/","7","0",".","3","/","N","i","c","e","/","2","0","2","1">>, 900),
       TristatHalf(txt(<<" ">>), <<"F","4","0","-","4","4">>, <<"/","i","r","o","n","m","a","n","/","7","0",".","3","/","n","i","c","e","/","2","0","1","9">>, 1200),
       TristatSprint(NaN, <<"F","3","5","-","3","9">>, <<"/","i","r","o","n","m","a","n","/","s","p","r","i","n","t","/","n","e","w","-","y","o","r","k","/","2","0","2","0">>) >>

TristatAnonymous == DataFrame(TristatFileColumns, TristatNameless)
TristatNamed     == DataFrame(TristatFileColumns, TristatDi \o TristatNameless)
TristatHalfOnly  == DataFrame(TristatFileColumns, TristatDi)

TristatFiles == {Absent, TristatAnonymous, TristatNamed, TristatHalfOnly,
                 drop_column(TristatNamed, "person_name")}

\* the files of a complete scrape
Baseline == [t100 |-> T100InCohort, wiki |-> WikiRecords, df6 |-> Df6Block(MIN_COHORT),
             coachcox |-> <<ResultsBlock(0), RacesFile, SeriesFile>>,
             tristat |-> TristatAnonymous]

MaxDeviations == 2

\* the scrapes that differ from the complete one in at most MaxDeviations sources
Availability ==
    {f \in [t100 : T100Files, wiki : WikiFiles, df6 : Df6Files,
            coachcox : CoachcoxFiles, tristat : TristatFiles] :
        Cardinality({k \in DOMAIN f : f[k] # Baseline[k]}) <= MaxDeviations}

\* every small results.csv beside a fixed set of other files
ResultsContent ==
    {[t100 |-> Absent, wiki |-> Absent, df6 |-> Df6Block(0),
      coachcox |-> <<d, RacesFile, SeriesFile>>, tristat |-> TristatAnonymous] :
        d \in ResultsTables \cup ResultsWithPro}

Scraped == Availability \cup ResultsContent

Init ==
    /\ scraped \in Scraped
    /\ pc = "t100"
    /\ sources = <<>>
    /\ fact = Absent
    /\ cohort = Absent
    /\ profile = Absent
    /\ error = NoError
    /\ history = <<>>
    /\ series = Idle /\ secs = Idle /\ triple = Idle /\ hashes = Idle
    /\ df = Idle /\ out = Idle

Spec == Init /\ [][Next]_vars

(***************************************************************************)
(* combine_and_derive and build_profiles on given source tables            *)
(***************************************************************************)
\* a processed record: the SCHEMA columns a processor fills, the others null
Rec(source, name, gender, ag, dist, pro, year, segs, total, status) ==
    [c \in SchemaSet |->
        CASE c = "athlete_hash"   -> hash_athletes_cell(name, txt(<<"U","S">>), gender)
          [] c = "athlete_name"   -> name
          [] c = "gender"         -> gender
          [] c = "age_group"      -> ag
          [] c = "country"        -> txt(<<"U","S">>)
          [] c = "is_pro"         -> Cell(pro)
          [] c = "event_year"     -> year
          [] c = "event_distance" -> dist
          [] c = "source"         -> Cell(source)
          [] c = "swim_sec"       -> segs[1]
          [] c = "bike_sec"       -> segs[2]
          [] c = "run_sec"        -> segs[3]
          [] c = "total_sec"      -> Cell(total)
          [] c = "finish_status"  -> status
          [] OTHER                -> NaN]

FinisherCell == Cell(Finisher)
HalfSegs == <<Cell(2000), Cell(9500), Cell(6000)>>
FullSegs == <<Cell(4000), Cell(19000), Cell(12500)>>

\* the rows one source contributes to the cohort (F, 35-39, 70.3): n amateur
\* finishers without a name; the totals of the three sources interleave, or
\* coincide when tied
ScenarioBlock(source, k, n, tied) ==
    [i \in 1..n |-> Rec(source, NaN, txt(<<"F">>), txt(<<"3","5","-","3","9">>), txt(D703),
                        FALSE, Cell(2019), HalfSegs,
                        IF tied THEN 18000 + i ELSE 18000 + 3 * i + k, FinisherCell)]

\* n faster amateur finishers of another cohort (M, 40-44, 70.3)
OtherBlock(n) ==
    [i \in 1..n |-> Rec("tristat", NaN, txt(<<"M">>), txt(<<"4","0","-","4","4">>), txt(D703),
                        FALSE, Cell(2019), HalfSegs, 16000 + i, FinisherCell)]

ScenarioRows == 40
ScenarioSizes == {0, ScenarioRows}

\* three source tables over the blocks
ScenarioSources ==
    {<< DataFrame(SCHEMA, ScenarioBlock("kaggle_df6", 1, n[1], tied)),
        DataFrame(SCHEMA, ScenarioBlock("coachcox", 2, n[2], tied)),
        DataFrame(SCHEMA, ScenarioBlock("tristat", 3, n[3], tied) \o OtherBlock(m)) >> :
        n \in [1..3 -> ScenarioSizes], m \in {0, MIN_COHORT}, tied \in BOOLEAN}

M4044 == txt(<<"4","0","-","4","4">>)
NoSegs == <<NaN, NaN, NaN>>

\* the cohort (M, 40-44, 140.6): MIN_COHORT amateur finishers without a name,
\* and one sprint result, which keeps event_distance a text column on disk
Backdrop ==
    [i \in 1..MIN_COHORT |-> Rec("coachcox", NaN, txt(<<"M">>), M4044, txt(D1406), FALSE,
                                 Cell(2019), FullSegs, 36000 + i, FinisherCell)]
    \o << Rec("tristat", NaN, txt(<<"F">>), M4044, txt(<<"s","p","r","i","n","t">>), FALSE,
              Cell(2019), <<Cell(600), Cell(2000), Cell(1200)>>, 4000, FinisherCell) >>

Cy == txt(<<"C","y">>)
Di == txt(<<"D","i">>)
Ed == txt(<<"E","d">>)
Fy == txt(<<"F","y">>)

\* results of named athletes: Cy and Di race in the cohort of the backdrop,
\* Ed in a cohort without statistics
NamedChoices ==
    { Rec("coachcox", Cy, txt(<<"M">>), M4044, txt(D1406), FALSE, Cell(2018), FullSegs,
          36500, FinisherCell),
      Rec("coachcox", Cy, txt(<<"M">>), M4044, txt(D1406), FALSE, Cell(2019), FullSegs,
          35800, txt(<<"d","n","f">>)),
      Rec("coachcox", Cy, txt(<<"M">>), M4044, txt(D1406), FALSE, Cell(2018), NoSegs,
          36100, NaN),
      Rec("tristat", Cy, txt(<<"M">>), M4044, txt(D1406), FALSE, Cell(2019), FullSegs,
          36300, FinisherCell),
      Rec("tristat", Cy, txt(<<"M">>), M4044, txt(D1406), FALSE, NaN, FullSegs,
          36200, FinisherCell),
      Rec("tristat", Di, txt(<<"M">>), M4044, txt(D1406), FALSE, Cell(2019), FullSegs,
          36600, FinisherCell),
      Rec("tristat", Ed, txt(<<"M">>), M4044, txt(D703), FALSE, Cell(2019), HalfSegs,
          20000, FinisherCell) }

MaxNamed == 2

\* the backdrop and up to MaxNamed results of named athletes
NamedSources ==
    UNION {{<< DataFrame(SCHEMA, Backdrop), DataFrame(SCHEMA, q) >> :
               q \in [1..n -> NamedChoices]} : n \in 0..MaxNamed}

TrendYears == 5

\* an athlete whose total falls by 60 s a year over TrendYears consecutive
\* years, listed latest year first
TrendSources ==
    << DataFrame(SCHEMA, Backdrop),
       DataFrame(SCHEMA, [i \in 1..TrendYears |->
                            Rec("tristat", Fy, txt(<<"M">>), M4044, txt(D1406), FALSE,
                                Cell(2020 - i), FullSegs, 36000 + 60 * i, FinisherCell)]) >>

\* MIN_COHORT amateur coachcox results without a name in the cohort
\* (M, ag, 140.6), all with the segment durations segs, with totals step
\* apart above base
SegmentBlock(ag, segs, status, base, step) ==
    [i \in 1..MIN_COHORT |-> Rec("coachcox", NaN, txt(<<"M">>), txt(ag), txt(D1406), FALSE,
                                 Cell(2019), segs, base + step * i, status)]

\* three cohorts: one with every median, one whose results have no run time,
\* one of abandoned races whose run time is 0; beside them a professional and
\* an amateur without a run time in the first cohort, and a professional with
\* a run time in each of the other two; the totals of the third cohort
\* deviate by more than STD_FLOOR, and the amateur Gus races in it; the
\* amateur of the first cohort is Hal; two results without a name of other
\* age groups share year, total and gender with each other and with a
\* coachcox result
Gus == txt(<<"G","u","s">>)
Hal == txt(<<"H","a","l">>)

SegmentSources ==
    << DataFrame(SCHEMA,
                 SegmentBlock(<<"4","5","-","4","9">>, FullSegs, FinisherCell, 36000, 1)
                 \o SegmentBlock(<<"5","0","-","5","4">>, <<Cell(4000), Cell(19000), NaN>>,
                                 FinisherCell, 37000, 1)
                 \o SegmentBlock(<<"5","5","-","5","9">>, <<Cell(4000), Cell(19000), Cell(0)>>,
                                 txt(<<"d","n","f">>), 38000, 50)),
       DataFrame(SCHEMA,
                 << Rec("tristat", NaN, txt(<<"M">>), txt(<<"4","5","-","4","9">>), txt(D1406), TRUE,
                        Cell(2019), <<Cell(3000), Cell(15000), Cell(10000)>>, 30000, FinisherCell),
                    Rec("tristat", Hal, txt(<<"M">>), txt(<<"4","5","-","4","9">>), txt(D1406), FALSE,
                        Cell(2019), <<Cell(4100), Cell(19000), NaN>>, 36100, FinisherCell),
                    Rec("tristat", NaN, txt(<<"M">>), txt(<<"5","0","-","5","4">>), txt(D1406), TRUE,
                        Cell(2019), FullSegs, 36200, FinisherCell),
                    Rec("tristat", NaN, txt(<<"M">>), txt(<<"5","5","-","5","9">>), txt(D1406), TRUE,
                        Cell(2019), FullSegs, 36300, FinisherCell),
                    Rec("tristat", Gus, txt(<<"M">>), txt(<<"5","5","-","5","9">>), txt(D1406), FALSE,
                        Cell(2019), <<Cell(3900), Cell(19500), Cell(12500)>>, 38725, FinisherCell),
                    Rec("tristat", NaN, txt(<<"M">>), txt(<<"6","0","-","6","4">>), txt(D1406), FALSE,
                        Cell(2019), FullSegs, 36005, FinisherCell),
                    Rec("tristat", NaN, txt(<<"M">>), txt(<<"6","5","-","6","9">>), txt(D1406), FALSE,
                        Cell(2019), HalfSegs, 36005, FinisherCell),
                    Rec("tristat", NaN, txt(<<"F">>), M4044, txt(<<"s","p","r","i","n","t">>), FALSE,
                        Cell(2019), <<Cell(600), Cell(2000), Cell(1200)>>, 4000, FinisherCell) >>) >>

GivenSources == ScenarioSources \cup NamedSources \cup {TrendSources, SegmentSources}

InitCombine ==
    /\ sources \in GivenSources
    /\ pc = "combine"
    /\ scraped = Idle
    /\ fact = Absent
    /\ cohort = Absent
    /\ profile = Absent
    /\ error = NoError
    /\ history = <<>>
    /\ series = Idle /\ secs = Idle /\ triple = Idle /\ hashes = Idle
    /\ df = Idle /\ out = Idle

NextCombine ==
    \/ Combine
    \/ BuildProfiles

SpecCombine == InitCombine /\ [][NextCombine]_vars

(***************************************************************************)
(* The processors and the combiner on files with varied divisions          *)
(***************************************************************************)
Vi == txt(<<"V","i">>)

DivisionChoices == {txt(<<"M","P","R","O">>), txt(<<"f","p","r","o">>), txt(<<"M","p","r","o">>),
                    txt(<<"P","R","O">>), txt(<<"M","4","0","-","4","4">>), NaN}

GroupChoices == {txt(<<"M","P","R","O">>), txt(<<"p","r","o">>), txt(<<"F","4","0","-","4","4">>),
                 txt(<<"M"," ","P","r","o"," ","3","5","-","3","9">>), NaN}

\* results.csv: a finish of the age-group athlete Cy and one of Vi in division d
DivisionResults(d) ==
    DataFrame(ResultsFileColumns,
              << ResultRaw(<<"M","4","0","-","4","4">>, txt(hms_text(36000)),
                           txt(<<"F","i","n","i","s","h","e","r">>), 0),
                 [ResultRaw(<<"M","4","0","-","4","4">>, txt(hms_text(36060)),
                            txt(<<"F","i","n","i","s","h","e","r">>), 60)
                     EXCEPT !["Name"] = Vi, !["Division"] = d] >>)

\* the tristat file: a race of the age-group athlete Di and one of Vi in group g
GroupResults(g) ==
    DataFrame(TristatFileColumns,
              << TristatDi[1],
                 [TristatHalf(Vi, <<>>, <<"/","i","r","o","n","m","a","n","/","7","0",".","3","/","n","i","c","e","/","2","0","1","9">>, 300)
                     EXCEPT !["person_event_group"] = g] >>)

FlagScrapes ==
    {[t100 |-> T100Open, wiki |-> WikiRecords, df6 |-> Df6Block(1),
      coachcox |-> <<DivisionResults(d), RacesFile, SeriesFile>>,
      tristat |-> GroupResults(g)] : d \in DivisionChoices, g \in GroupChoices}

InitFlags ==
    /\ scraped \in FlagScrapes
    /\ pc = "t100"
    /\ sources = <<>>
    /\ fact = Absent
    /\ cohort = Absent
    /\ profile = Absent
    /\ error = NoError
    /\ history = <<>>
    /\ series = Idle /\ secs = Idle /\ triple = Idle /\ hashes = Idle
    /\ df = Idle /\ out = Idle

NextFlags ==
    \/ Process_t100
    \/ Process_wiki
    \/ Process_df6
    \/ Process_coachcox
    \/ Process_tristat
    \/ Combine

SpecFlags == InitFlags /\ [][NextFlags]_vars

(***************************************************************************)
(* main run again on the same raw files                                    *)
(***************************************************************************)
Zed == txt(<<"Z","e","d">>)

\* outputs of an earlier run on other raw files, left in data/cleaned
StaleFact ==
    DataFrame(FactColumns,
              << [c \in SeqToSet(FactColumns) |->
                     IF c \in SchemaSet
                     THEN Rec("tristat", Zed, txt(<<"M">>), M4044, txt(D1406), FALSE,
                              Cell(2017), FullSegs, 37000, FinisherCell)[c]
                     ELSE NaN] >>)
StaleCohort == DataFrame(CohortColumns, <<>>)
StaleProfile ==
    DataFrame(ProfileColumns,
              << [c \in SeqToSet(ProfileColumns) |->
                     IF c = "athlete_hash"
                     THEN hash_athletes_cell(Zed, txt(<<"U","S">>), txt(<<"M">>))
                     ELSE IF c = "athlete_name" THEN Zed ELSE NaN] >>)

\* data/cleaned before the first run: empty, or holding the earlier outputs
Leftovers == {<<Absent, Absent, Absent>>, <<StaleFact, StaleCohort, StaleProfile>>}

\* the scrapes that differ from the complete one in at most one source
RerunScraped ==
    {f \in Availability : Cardinality({k \in DOMAIN f : f[k] # Baseline[k]}) <= 1}

MaxRuns == 2

InitRerun ==
    /\ scraped \in RerunScraped
    /\ pc = "t100"
    /\ sources = <<>>
    /\ \E left \in Leftovers :
          /\ fact = left[1] /\ cohort = left[2] /\ profile = left[3]
          /\ history = << <<"start", NoError, left[1], left[2], left[3]>> >>
    /\ error = NoError
    /\ series = Idle /\ secs = Idle /\ triple = Idle /\ hashes = Idle
    /\ df = Idle /\ out = Idle

\* main() is started again after it has ended: the raw files and data/cleaned
\* are as the run before left them
Rerun ==
    /\ pc \in {"done", "aborted"}
    /\ Len(history) < MaxRuns
    /\ history' = Append(history, <<pc, error, fact, cohort, profile>>)
    /\ pc' = "t100"
    /\ sources' = <<>>
    /\ error' = NoError
    /\ UNCHANGED <<scraped, fact, cohort, profile, utilVars>>

NextRerun ==
    \/ Next
    \/ Rerun

SpecRerun == InitRerun /\ [][NextRerun]_vars


(***************************************************************************)
(* Properties of the pipeline                                              *)
(***************************************************************************)
\* a name that is missing, empty or made of blanks only
Anonymous(name) == isna(name) \/ \A i \in 1..Len(Val(name)) : Val(name)[i] = " "

written(t) == t[1] = "DataFrame"

AnonymousHaveNoHash(rws) ==
    \A i \in 1..Len(rws) : Anonymous(rws[i]["athlete_name"]) => isna(rws[i]["athlete_hash"])

\* the records of the fact table that carry a name and the identity h
RecordsOf(h) ==
    {i \in 1..len(fact) : /\ ~Anonymous(rows_of(fact)[i]["athlete_name"])
                          /\ rows_of(fact)[i]["athlete_hash"] = h}

\* C5: a record whose name is missing, empty or blank has a null athlete_hash
\* in every processed source and in the fact table, whatever its country and
\* gender, so a non-null athlete_hash is only ever shared by named records;
\* every AthleteProfile row has a non-null athlete_hash and counts exactly the
\* named records of that identity, and there are as many rows as identities.
C5_AnonymousRecordsHaveNoIdentity ==
    /\ \A k \in 1..Len(sources) : AnonymousHaveNoHash(rows_of(sources[k]))
    /\ written(fact) => AnonymousHaveNoHash(rows_of(fact))
    /\ written(fact) =>
          \A i, j \in 1..len(fact) :
              (/\ notna(rows_of(fact)[i]["athlete_hash"])
               /\ rows_of(fact)[i]["athlete_hash"] = rows_of(fact)[j]["athlete_hash"])
              => ~Anonymous(rows_of(fact)[i]["athlete_name"])
                 /\ ~Anonymous(rows_of(fact)[j]["athlete_name"])
    /\ written(profile) =>
          /\ \A n \in 1..len(profile) :
                /\ notna(rows_of(profile)[n]["athlete_hash"])
                /\ rows_of(profile)[n]["total_races"]
                      = Cell(Cardinality(RecordsOf(rows_of(profile)[n]["athlete_hash"])))
          /\ len(profile) = Cardinality({rows_of(fact)[i]["athlete_hash"] :
                                            i \in {j \in 1..len(fact) :
                                                     notna(rows_of(fact)[j]["athlete_hash"])}})

\* profiles were written from a fact table that holds records without a
\* name, records with a blank name and records with a name
C5_Witness ==
    /\ written(profile) /\ len(profile) > 0
    /\ \E i \in 1..len(fact) : isna(rows_of(fact)[i]["athlete_name"])
    /\ \E i \in 1..len(fact) : /\ notna(rows_of(fact)[i]["athlete_name"])
                               /\ Anonymous(rows_of(fact)[i]["athlete_name"])
                               /\ notna(rows_of(fact)[i]["country"])
                               /\ notna(rows_of(fact)[i]["gender"])

\* the raw file(s) of the k-th processor are absent
SourceAbsent(k) ==
    CASE k = 1 -> scraped.t100 = Absent
      [] k = 2 -> scraped.wiki = Absent
      [] k = 3 -> scraped.df6 = Absent
      [] k = 4 -> \E j \in 1..3 : scraped.coachcox[j] = Absent
      [] k = 5 -> scraped.tristat = Absent

\* the run ended in the k-th processor
AbortedIn(k) == pc = "aborted" /\ Len(sources) = k - 1

\* C6 as stated: for each of the five processors, when its raw file(s) are
\* absent the run does not end there and the processor's table is the empty
\* table with exactly the SCHEMA columns.
C6_AbsentSourceYieldsEmptyTable ==
    \A k \in 1..5 :
        SourceAbsent(k) => /\ ~AbortedIn(k)
                           /\ Len(sources) >= k => sources[k] = EmptySchemaTable

\* the columns each processor reads from its file
T100Expected == T100Required \o <<"gender", "age_group", "country", "event_distance",
                                  "overall_rank", "gender_rank", "age_group_rank">>
WikiExpected == <<"athlete_name", "total_sec", "gender", "age_group", "country",
                  "event_name", "event_year", "event_distance", "swim_sec", "t1_sec",
                  "bike_sec", "t2_sec", "run_sec", "overall_rank", "gender_rank",
                  "age_group_rank">>

\* the k-th file is present and lacks a column its processor reads
LacksExpected(k) ==
    CASE k = 1 -> scraped.t100 # Absent /\ first_missing(scraped.t100, T100Expected) # 0
      [] k = 2 -> scraped.wiki # Absent /\ first_missing(scraped.wiki, WikiExpected) # 0
      [] k = 3 -> scraped.df6 # Absent /\ first_missing(scraped.df6, Df6Required) # 0
      [] k = 4 -> /\ \A j \in 1..3 : scraped.coachcox[j] # Absent
                  /\ first_missing(scraped.coachcox[1], CoachcoxRequired) # 0
      [] k = 5 -> /\ scraped.tristat # Absent
                  /\ first_missing(scraped.tristat, TristatRequired) # 0

\* C7 as stated: when a present file lacks a column its processor reads, the
\* processor yields no table (the run ends there, before any output); it never
\* goes on with the column filled with nulls.
C7_MissingColumnAborts ==
    \A k \in 1..5 : LacksExpected(k) => Len(sources) < k

\* the number of rows of rws that carry a finish status other than 'finisher'
NonFinishers(rws, col) ==
    Cardinality({i \in 1..Len(rws) : /\ notna(rws[i][col])
                                     /\ strip(lower(Val(rws[i][col]))) # Finisher})

\* C8 as stated: every row of results.csv whose finish status is not
\* 'finisher' is in the table process_coachcox returns.
C8_NonFinishersRetained ==
    Len(sources) >= 4 =>
        NonFinishers(rows_of(sources[4]), "finish_status")
            = NonFinishers(rows_of(scraped.coachcox[1]), "finishStatus")

\* C9: the deduplication of combine_and_derive, applied to the rows it has
\* already deduplicated, removes nothing: twice gives the rows of once, and
\* these are the rows of the fact table.
C9_DeduplicationIdempotent ==
    Len(sources) = 5 =>
        LET once == drop_duplicates(concat(sources))
        IN /\ drop_duplicates(once) = once
           /\ written(fact) => [i \in 1..len(fact) |->
                                   [c \in SchemaSet |-> rows_of(fact)[i][c]]] = once

\* a fact table was written from sources in which a record occurs three times
C9_Witness ==
    /\ written(fact)
    /\ \E i, j, k \in 1..Len(concat(sources)) :
          /\ i < j /\ j < k
          /\ dedup_key(concat(sources)[i]) = dedup_key(concat(sources)[j])
          /\ dedup_key(concat(sources)[j]) = dedup_key(concat(sources)[k])
    /\ len(fact) < Len(concat(sources))

\* the keys of the amateur records of the fact table
AmateurKeys ==
    {cohort_key(rows_of(fact)[i]) :
        i \in {j \in 1..len(fact) : /\ rows_of(fact)[j]["is_pro"] # Cell(TRUE)
                                    /\ key_present(rows_of(fact)[j])}}

\* the number of amateur records with key k and a total time
Samples(k) ==
    Cardinality({i \in 1..len(fact) : /\ rows_of(fact)[i]["is_pro"] # Cell(TRUE)
                                      /\ cohort_key(rows_of(fact)[i]) = k
                                      /\ notna(rows_of(fact)[i]["total_sec"])})

CohortKeys == {cohort_key(rows_of(cohort)[n]) : n \in 1..len(cohort)}

\* C10: CohortStats has a row for a (gender, age_group, event_distance) key
\* exactly when the amateur records with that key number at least 30; every
\* row carries that number as its count, and no key has two rows.
C10_CohortRowIffThirtySamples ==
    written(cohort) =>
        /\ \A k \in AmateurKeys : (k \in CohortKeys) <=> (Samples(k) >= 30)
        /\ \A n \in 1..len(cohort) :
              /\ cohort_key(rows_of(cohort)[n]) \in AmateurKeys
              /\ rows_of(cohort)[n]["c_count"] = Cell(Samples(cohort_key(rows_of(cohort)[n])))
              /\ Val(rows_of(cohort)[n]["c_count"]) >= 30
        /\ Cardinality(CohortKeys) = len(cohort)

\* one group of 29 samples without a row beside a group with a row
C10_Witness ==
    /\ written(cohort)
    /\ \E k \in AmateurKeys : Samples(k) = 29 /\ k \notin CohortKeys
    /\ \E k \in AmateurKeys : Samples(k) >= 30 /\ k \in CohortKeys

\* the fact rows whose (gender, age_group, event_distance) has no CohortStats row
WithoutCohort == {i \in 1..len(fact) : cohort_of(rows_of(fact)[i], cohort) = <<>>}

\* C11 as stated: a fact row whose cohort has no CohortStats row (a cohort
\* under the floor, or a key with a missing part) has a null fade_ratio, a
\* null implied_bike_if and a null cohort_percentile.
C11_NoCohortRowNoDerivedValues ==
    written(fact) =>
        \A i \in WithoutCohort : /\ isna(rows_of(fact)[i]["fade_ratio"])
                                 /\ isna(rows_of(fact)[i]["implied_bike_if"])
                                 /\ isna(rows_of(fact)[i]["cohort_percentile"])

\* the part of C11 the run keeps: without a CohortStats row, fade_ratio and
\* implied_bike_if are null
NoCohortRowNoFadeNoIntensity ==
    written(fact) =>
        \A i \in WithoutCohort : /\ isna(rows_of(fact)[i]["fade_ratio"])
                                 /\ isna(rows_of(fact)[i]["implied_bike_if"])

NotPro(r) == r["is_pro"] # Cell(TRUE)

\* CohortStats as computed when every professional row is taken out of the
\* processed sources before they are combined
StatsWithoutProSources ==
    cohort_groups(drop_duplicates(SelectSeq(concat(sources), NotPro)))

\* a professional row comes before an age-group row of the same source,
\* athlete_name, event_year, total_sec and gender
ProShadowsAmateur ==
    LET rws == concat(sources)
    IN \E i, j \in 1..Len(rws) : /\ i < j
                                 /\ ~NotPro(rws[i]) /\ NotPro(rws[j])
                                 /\ dedup_key(rws[i]) = dedup_key(rws[j])

\* C12 as stated: CohortStats is what it would be with every professional
\* row removed from the input, so professional rows never change a
\* CohortStats row nor whether a cohort meets the floor.
C12_ProRowsNeverChangeStats ==
    written(cohort) => cohort = StatsWithoutProSources

\* C12, amended: CohortStats is computed from the non-professional rows of
\* the deduplicated table only; taking every professional row out of the
\* input leaves CohortStats unchanged unless a professional row precedes an
\* age-group row with the same deduplication key.
C12_StatsFromAmateurRowsOfDeduplicated ==
    written(cohort) =>
        /\ cohort = cohort_groups(SelectSeq(rows_of(fact), NotPro))
        /\ ~ProShadowsAmateur => cohort = StatsWithoutProSources

\* CohortStats has a row for a cohort that also holds a professional row,
\* and no professional row shadows an age-group row
C12_Witness ==
    /\ written(cohort) /\ len(cohort) > 0
    /\ ~ProShadowsAmateur
    /\ \E i \in 1..len(fact) : /\ ~NotPro(rows_of(fact)[i])
                               /\ cohort_key(rows_of(fact)[i]) \in CohortKeys

\* the fact rows with the key of row i and a total
GroupOf(i) ==
    {j \in 1..len(fact) : /\ cohort_key(rows_of(fact)[j]) = cohort_key(rows_of(fact)[i])
                          /\ notna(rows_of(fact)[j]["total_sec"])}

Total(i) == Val(rows_of(fact)[i]["total_sec"])
Percentile(i) == rows_of(fact)[i]["cohort_percentile"]

\* twice the average rank of row i among the rows of its own group
TwiceRank(i, G) ==
    2 * Cardinality({j \in G : Total(j) < Total(i)})
      + Cardinality({j \in G : Total(j) = Total(i)}) + 1

ScenarioKey == <<txt(<<"F">>), txt(<<"3","5","-","3","9">>), txt(D703)>>

\* each of the three sources holds ScenarioRows amateur rows of one cohort
ThreeSourcesOneCohort ==
    /\ Len(sources) = 3
    /\ \A k \in 1..3 :
          Cardinality({i \in 1..len(sources[k]) :
                          /\ cohort_key(rows_of(sources[k])[i]) = ScenarioKey
                          /\ NotPro(rows_of(sources[k])[i])}) = ScenarioRows

ScenarioGroup == {i \in 1..len(fact) : cohort_key(rows_of(fact)[i]) = ScenarioKey}

\* C13: a non-null cohort_percentile is the average rank of the row's total
\* among the rows of its own (gender, age_group, event_distance) group,
\* divided by the size of that group, so within a group a smaller total never
\* has a larger percentile; when three sources each contribute ScenarioRows
\* amateur rows with distinct deduplication keys to one cohort, CohortStats
\* has exactly one row for it, with the count of all of them, every row of
\* the cohort has a percentile between 0 and 100, and a fastest row has the
\* smallest percentile of the group, at most the share of the rows that tie
\* with it.
C13_PercentileWithinOwnGroup ==
    written(fact) =>
        /\ \A i \in 1..len(fact) :
              notna(Percentile(i)) =>
                  LET G == GroupOf(i)
                  IN /\ key_present(rows_of(fact)[i])
                     /\ Val(Percentile(i)) = frac(TwiceRank(i, G), 2 * Cardinality(G))
        /\ \A i, j \in 1..len(fact) :
              (/\ Total(i) < Total(j)
               /\ notna(Percentile(i)) /\ notna(Percentile(j))
               /\ cohort_key(rows_of(fact)[i]) = cohort_key(rows_of(fact)[j]))
              => ~frac_less(Val(Percentile(j)), Val(Percentile(i)))
        /\ ThreeSourcesOneCohort =>
              LET S    == ScenarioGroup
                  best == Min({Total(i) : i \in S})
                  ties == Cardinality({i \in S : Total(i) = best})
              IN /\ Cardinality({n \in 1..len(cohort) :
                                    cohort_key(rows_of(cohort)[n]) = ScenarioKey}) = 1
                 /\ \A n \in 1..len(cohort) :
                       cohort_key(rows_of(cohort)[n]) = ScenarioKey
                       => rows_of(cohort)[n]["c_count"] = Cell(3 * ScenarioRows)
                 /\ Cardinality(S) = 3 * ScenarioRows
                 /\ \A i \in S :
                       /\ notna(Percentile(i))
                       /\ Val(Percentile(i))[1] >= 0
                       /\ Val(Percentile(i))[1] <= 100 * Val(Percentile(i))[2]
                       /\ ~frac_less(Val(Percentile(i)), frac(1 + ties, 2 * 3 * ScenarioRows))
                 /\ \A i \in S :
                       Total(i) = best
                       => Val(Percentile(i)) = frac(1 + ties, 2 * 3 * ScenarioRows)

\* three sources of 40 amateur rows each in one cohort, combined beside a
\* second cohort of faster rows: 120 rows are ranked and the fastest of them
\* has percentile 1/120
C13_Witness ==
    /\ written(fact) /\ ThreeSourcesOneCohort
    /\ Cardinality(ScenarioGroup) = 120
    /\ \E i \in 1..len(fact) : i \notin ScenarioGroup /\ notna(Percentile(i))
    /\ \E i \in ScenarioGroup : Percentile(i) = Cell(<<1, 120>>)

\* the fact rows with a resolved identity
Identified == {i \in 1..len(fact) : notna(rows_of(fact)[i]["athlete_hash"])}

ProfileHash(n) == rows_of(profile)[n]["athlete_hash"]

\* C14: the profile table has one row for each distinct non-null
\* athlete_hash of the fact table and no other row: no identity has two
\* rows, none is missing, no row has a null identity, and the races counted
\* over all profiles are exactly the fact rows with an identity.
C14_OneProfilePerIdentity ==
    written(profile) =>
        /\ \A n \in 1..len(profile) : notna(ProfileHash(n))
        /\ \A n, m \in 1..len(profile) : ProfileHash(n) = ProfileHash(m) => n = m
        /\ {ProfileHash(n) : n \in 1..len(profile)}
              = {rows_of(fact)[i]["athlete_hash"] : i \in Identified}
        /\ sum_seq([n \in 1..len(profile) |-> Val(rows_of(profile)[n]["total_races"])])
              = Cardinality(Identified)

\* one profile written for an athlete with two races, one in coachcox and
\* one in another source, from a fact table that also holds records without
\* identity
C14_Witness ==
    /\ written(profile) /\ len(profile) = 1
    /\ Cardinality(Identified) = 2
    /\ Cardinality(Identified) < len(fact)
    /\ \E i, j \in Identified :
          /\ rows_of(fact)[i]["source"] = Cell("coachcox")
          /\ rows_of(fact)[j]["source"] # Cell("coachcox")

\* build_profiles has returned or raised
ProfilesRan == written(fact) /\ pc \in {"done", "aborted"}

\* the three strength z-scores of identity h, from the fact table on disk
\* and the cohort table
ZOf(h) ==
    z_scores(SelectSeq(read_fact(fact), LAMBDA r : r["athlete_hash"] = h), cohort)

\* the identities whose three z-scores are all undefined
UndefinedAthletes ==
    {h \in {rows_of(fact)[i]["athlete_hash"] : i \in Identified} :
        \A k \in 1..3 : isna(ZOf(h)[k])}

\* C15 as stated: build_profiles completes and writes the profile table
\* also when an athlete has three undefined z-scores, and that athlete's
\* dominant_discipline is null.
C15_UndefinedZScoresGiveNullDominant ==
    ProfilesRan =>
        /\ written(profile)
        /\ \A n \in 1..len(profile) :
              ProfileHash(n) \in UndefinedAthletes
              => isna(rows_of(profile)[n]["dominant_discipline"])

\* what the run does instead: it ends in build_profiles exactly when some
\* athlete has three undefined z-scores, and a written table gives each
\* athlete a discipline whose z-score no other exceeds
DominantOnlyWhenAllDefined ==
    ProfilesRan =>
        /\ (pc = "aborted") <=> (UndefinedAthletes # {})
        /\ pc = "aborted" => error[1] = "ValueError"
        /\ written(profile) =>
              \A n \in 1..len(profile) :
                  \E k \in 1..3 :
                      /\ rows_of(profile)[n]["dominant_discipline"]
                            = Cell(<<"swim", "bike", "run">>[k])
                      /\ notna(ZOf(ProfileHash(n))[k])
                      /\ \A j \in 1..3 :
                            notna(ZOf(ProfileHash(n))[j])
                            => ~frac_less(Val(ZOf(ProfileHash(n))[k])[1],
                                          Val(ZOf(ProfileHash(n))[j])[1])

\* the fact rows of identity h that carry a year and a total
Dated(h) ==
    {i \in Identified : /\ rows_of(fact)[i]["athlete_hash"] = h
                         /\ notna(rows_of(fact)[i]["event_year"])
                         /\ notna(rows_of(fact)[i]["total_sec"])}

Year(i) == Val(rows_of(fact)[i]["event_year"])

\* the least-squares slope of total against year over the rows D with at
\* least two different years: the sum over the pairs of rows of the product
\* of their differences, over the sum of their squared year differences
LeastSquares(D) ==
    LET q   == SelectSeq([i \in 1..len(fact) |-> i], LAMBDA i : i \in D)
        n   == Len(q)
        sxy == sum_seq([a \in 1..n |->
                   sum_seq([b \in 1..(a - 1) |->
                       (Year(q[a]) - Year(q[b])) * (Total(q[a]) - Total(q[b]))])])
        sxx == sum_seq([a \in 1..n |->
                   sum_seq([b \in 1..(a - 1) |->
                       (Year(q[a]) - Year(q[b])) * (Year(q[a]) - Year(q[b]))])])
    IN frac(sxy, sxx)

Slope(n) == rows_of(profile)[n]["improvement_slope"]

\* C16: improvement_slope is null for an athlete with fewer than two rows
\* carrying year and total, or with all of them in one year; otherwise it
\* is the least-squares slope of total_sec against event_year over these
\* rows; for an athlete whose total falls by exactly 60 s with every year
\* it is -60.
C16_SlopeIsLeastSquares ==
    written(profile) =>
        \A n \in 1..len(profile) :
            LET D == Dated(ProfileHash(n))
            IN IF Cardinality({Year(i) : i \in D}) < 2
               THEN isna(Slope(n))
               ELSE /\ Slope(n) = Cell(LeastSquares(D))
                    /\ (\A i, j \in D : Total(i) - Total(j) = (0 - 60) * (Year(i) - Year(j)))
                       => Slope(n) = Cell(<<0 - 60, 1>>)

\* the profile of an athlete with one race in each of 5 consecutive years,
\* each 60 s faster than the year before, has slope -60
C16_TrendWitness ==
    /\ written(profile)
    /\ \E n \in 1..len(profile) :
          LET D == Dated(ProfileHash(n))
          IN /\ Cardinality(D) = 5
             /\ {Year(i) : i \in D} = 2015..2019
             /\ \A i, j \in D : Year(j) = Year(i) + 1 => Total(j) = Total(i) - 60
             /\ Slope(n) = Cell(<<0 - 60, 1>>)

\* the coachcox rows of identity h in the fact table
CoachcoxOf(h) ==
    {i \in Identified : /\ rows_of(fact)[i]["athlete_hash"] = h
                         /\ rows_of(fact)[i]["source"] = Cell("coachcox")}

\* C17: dnf_count is the number of the athlete's coachcox rows whose status
\* is not 'finisher', dnf_rate that number over the athlete's coachcox rows
\* with a status; an athlete without coachcox rows has dnf_count 0 and
\* dnf_rate 0; the rows of the other sources do not enter either value.
C17_DnfFromCoachcoxRowsOnly ==
    written(profile) =>
        \A n \in 1..len(profile) :
            LET CC    == CoachcoxOf(ProfileHash(n))
                dnf   == Cardinality({i \in CC : rows_of(fact)[i]["finish_status"]
                                                   # Cell(Finisher)})
                known == Cardinality({i \in CC : notna(rows_of(fact)[i]["finish_status"])})
            IN /\ rows_of(profile)[n]["dnf_count"] = Cell(dnf)
               /\ CC = {} => rows_of(profile)[n]["dnf_rate"] = Cell(<<0, 1>>)
               /\ known > 0 => rows_of(profile)[n]["dnf_rate"] = Cell(frac(dnf, known))

\* an athlete with one abandoned coachcox race and one race of another
\* source has dnf_count 1 and dnf_rate 1
C17_Witness ==
    /\ written(profile)
    /\ \E n \in 1..len(profile) :
          /\ Cardinality(CoachcoxOf(ProfileHash(n))) = 1
          /\ \E i \in Identified : /\ rows_of(fact)[i]["athlete_hash"] = ProfileHash(n)
                                     /\ rows_of(fact)[i]["source"] # Cell("coachcox")
          /\ rows_of(profile)[n]["dnf_count"] = Cell(1)
          /\ rows_of(profile)[n]["dnf_rate"] = Cell(<<1, 1>>)

\* C18 as stated: when main has ended, normally or by an exception, either
\* all three output files were written by the run or none was.
C18_AllOutputsOrNone ==
    pc \in {"done", "aborted"} =>
        \/ written(fact) /\ written(cohort) /\ written(profile)
        \/ ~written(fact) /\ ~written(cohort) /\ ~written(profile)

\* what the run does instead: an exception in a processor leaves no output,
\* an exception in build_profiles leaves athlete_race.csv and
\* cohort_stats.csv without athlete_profile.csv
OutputsFollowStage ==
    /\ written(fact) <=> written(cohort)
    /\ written(fact) <=> pc \in {"profiles", "done"} \/ (pc = "aborted" /\ Len(sources) = 5)
    /\ written(profile) <=> pc = "done"

RunEnded == pc \in {"done", "aborted"}

\* C19: the tables a run writes are those computed from the sources it has
\* just processed, whatever data/cleaned held before, and build_profiles
\* works on the fact table the same run wrote; a run started again on the
\* same raw files ends as the run before it did, with the same three tables
\* in data/cleaned.
C19_RerunRegeneratesSameOutputs ==
    /\ (Len(sources) = 5 /\ pc \in {"profiles", "done", "aborted"}) =>
           LET res == combine_and_derive(sources)
           IN /\ fact = res[1]
              /\ cohort = res[2]
              /\ pc = "done" => profile = build_profiles(res[1], res[2])[2]
    /\ (RunEnded /\ Len(history) >= 2) =>
           <<pc, error, fact, cohort, profile>> = history[Len(history)]

\* a second run has completed and written profiles, as the first did, and
\* the first had found the outputs of an earlier run on other raw files
C19_Witness ==
    /\ pc = "done" /\ Len(history) = 2
    /\ history[1][5] = StaleProfile
    /\ history[2][1] = "done"
    /\ len(profile) > 0 /\ profile # StaleProfile

Within(c, bound) == Val(c) >= bound[1] /\ Val(c) <= bound[2]

\* the record invariant: the total within its bound, every segment and
\* transition that is present within its bound, and every segment that is
\* present between 5% and 65% of the total
RecordInvariant(r) ==
    /\ notna(r["total_sec"]) /\ Within(r["total_sec"], B.total)
    /\ notna(r["swim_sec"]) => Within(r["swim_sec"], B.swim)
    /\ notna(r["bike_sec"]) => Within(r["bike_sec"], B.bike)
    /\ notna(r["run_sec"]) => Within(r["run_sec"], B.run)
    /\ notna(r["t1_sec"]) => Within(r["t1_sec"], B.t)
    /\ notna(r["t2_sec"]) => Within(r["t2_sec"], B.t)
    /\ \A c \in {"swim_sec", "bike_sec", "run_sec"} :
          notna(r[c]) => /\ 100 * Val(r[c]) >= B.pct[1] * Val(r["total_sec"])
                         /\ 100 * Val(r[c]) <= B.pct[2] * Val(r["total_sec"])

\* a coachcox record whose finish status is not 'finisher'
CoachcoxNonFinisher(r) ==
    r["source"] = Cell("coachcox") /\ r["finish_status"] # Cell(Finisher)

\* C20 as stated: every record of the written fact table satisfies the
\* record invariant, whatever its source and finish status.
C20_EveryRecordSatisfiesInvariant ==
    written(fact) => \A i \in 1..len(fact) : RecordInvariant(rows_of(fact)[i])

\* C20, amended: every record of the written fact table other than the
\* coachcox records whose finish status is not 'finisher' satisfies the
\* record invariant.
C20_FilteredRecordsSatisfyInvariant ==
    written(fact) =>
        \A i \in 1..len(fact) :
            ~CoachcoxNonFinisher(rows_of(fact)[i]) => RecordInvariant(rows_of(fact)[i])

\* a fact table with a coachcox finisher, records of another source, and a
\* coachcox non-finisher that does not satisfy the invariant
C20_Witness ==
    /\ written(fact)
    /\ \E i \in 1..len(fact) : /\ rows_of(fact)[i]["source"] = Cell("coachcox")
                               /\ rows_of(fact)[i]["finish_status"] = Cell(Finisher)
    /\ \E i \in 1..len(fact) : rows_of(fact)[i]["source"] # Cell("coachcox")
    /\ \E i \in 1..len(fact) : /\ CoachcoxNonFinisher(rows_of(fact)[i])
                               /\ ~RecordInvariant(rows_of(fact)[i])

ClosedGenders == {Cell(<<"M">>), Cell(<<"F">>), NaN}

\* C21 as stated: every row of the written fact table, and every key of the
\* written cohort table, has gender 'M', 'F' or null, whichever source the
\* row came from.
C21_GenderInClosedSet ==
    /\ written(fact) =>
           \A i \in 1..len(fact) : rows_of(fact)[i]["gender"] \in ClosedGenders
    /\ written(cohort) =>
           \A i \in 1..len(cohort) : rows_of(cohort)[i]["gender"] \in ClosedGenders

\* what the processors that call norm_gender guarantee: the rows of wiki,
\* coachcox and tristat have gender 'M', 'F' or null
NormalisedSourcesInClosedSet ==
    written(fact) =>
        \A i \in 1..len(fact) :
            rows_of(fact)[i]["source"] \in {Cell("wiki"), Cell("coachcox"), Cell("tristat")}
                => rows_of(fact)[i]["gender"] \in ClosedGenders

\* the SCHEMA columns the processor of a source does not fill
Unprovided(src) ==
    IF src \in {Cell("t100"), Cell("wiki")}
    THEN {"age_band", "country_iso2", "division_rank"}
    ELSE IF src = Cell("kaggle_df6")
    THEN {"overall_rank", "gender_rank", "age_group_rank", "division_rank"}
    ELSE IF src = Cell("coachcox")
    THEN {"country_iso2", "t1_sec", "t2_sec", "gender_rank", "age_group_rank"}
    ELSE {"overall_rank", "gender_rank", "age_group_rank", "division_rank"}

\* C22: every table a processor returned has exactly the 24 SCHEMA columns in
\* schema order, with the columns its source does not provide null and no row
\* with a null total_sec; the written fact table has the SCHEMA columns
\* followed by the 8 derived columns.
C22_SchemaColumnsAndTotals ==
    /\ Len(SCHEMA) = 24 /\ Len(DERIVED) = 8
    /\ \A k \in 1..Len(sources) :
          /\ columns_of(sources[k]) = SCHEMA
          /\ \A i \in 1..len(sources[k]) :
                LET r == rows_of(sources[k])[i]
                IN /\ DOMAIN r = SchemaSet
                   /\ notna(r["total_sec"])
                   /\ \A c \in Unprovided(r["source"]) : isna(r[c])
    /\ written(fact) =>
          /\ columns_of(fact) = SCHEMA \o DERIVED
          /\ \A i \in 1..len(fact) : DOMAIN rows_of(fact)[i] = SeqToSet(SCHEMA \o DERIVED)

\* all five processors returned, coachcox dropped a result without a total
\* and kept others, and the fact table was written with rows of two sources
C22_Witness ==
    /\ Len(sources) = 5 /\ written(fact)
    /\ len(sources[4]) > 0
    /\ len(sources[4]) < len(scraped.coachcox[1])
    /\ len(sources[5]) > 0
    /\ \E i \in 1..len(fact) : rows_of(fact)[i]["source"] = Cell("coachcox")
    /\ \E i \in 1..len(fact) : rows_of(fact)[i]["source"] = Cell("tristat")

\* the stages of main in the order of the code
Stages == <<"t100", "wiki", "df6", "coachcox", "tristat", "combine", "profiles", "done">>

\* what the k-th processor of main's list does on the raw files
Processed(k) ==
    IF k = 1 THEN process_t100(scraped.t100)
    ELSE IF k = 2 THEN process_wiki(scraped.wiki)
    ELSE IF k = 3 THEN process_df6(scraped.df6)
    ELSE IF k = 4 THEN process_coachcox(scraped.coachcox[1], scraped.coachcox[2],
                                        scraped.coachcox[3])
    ELSE process_tristat(scraped.tristat)

\* one step of a run that moves main to another stage without aborting
Advances == pc' # pc /\ pc' \notin {"aborted", "t100"}

StagesInOrder ==
    /\ \A k \in 1..5 :
          (pc = Stages[k] /\ Advances) =>
              /\ pc' = Stages[k + 1]
              /\ Len(sources) = k - 1
              /\ sources' = Append(sources, Processed(k)[2])
    /\ (pc' = "combine" /\ Advances) =>
          /\ pc = "tristat"
          /\ sources' = [k \in 1..5 |-> Processed(k)[2]]
    /\ (pc = "combine" /\ pc' # pc) =>
          LET res == combine_and_derive(sources)
          IN /\ Len(sources) = 5
             /\ pc' = "profiles"
             /\ fact' = res[1] /\ cohort' = res[2]
    /\ (pc' = "profiles" /\ Advances) => pc = "combine"
    /\ (pc = "profiles" /\ pc' # pc) =>
          LET res == combine_and_derive(sources)
          IN /\ pc' \in {"done", "aborted"}
             /\ fact = res[1] /\ cohort = res[2]
             /\ pc' = "done" => profile' = build_profiles(res[1], res[2])[2]

\* C23: combine_and_derive starts only after the five processors have
\* returned in the order t100, wiki, df6, coachcox, tristat and receives
\* their five tables; build_profiles starts only after combine_and_derive of
\* the same run has written the fact table and works with the cohort table
\* that call returned.
C23_StagesInOrder == [][StagesInOrder]_vars

\* a run that found the outputs of an earlier run has written profiles from
\* five processed sources, four of them with rows
C23_Witness ==
    /\ pc = "done" /\ Len(sources) = 5
    /\ history[1][3] = StaleFact
    /\ fact # StaleFact /\ profile # StaleProfile
    /\ Cardinality({k \in 1..5 : len(sources[k]) > 0}) >= 4

\* the cohort rows whose key is that of fact row i
StatsOf(i) ==
    {n \in 1..len(cohort) :
        \A c \in {"gender", "age_group", "event_distance"} :
            rows_of(cohort)[n][c] = rows_of(fact)[i][c]}

\* value is seg divided by the median med, or null when seg or med is
\* missing or med is not positive
IsOverMedian(value, seg, med) ==
    IF isna(seg) \/ isna(med) \/ Val(med)[1] <= 0
    THEN isna(value)
    ELSE /\ notna(value)
         /\ Val(value)[1] * Val(med)[1] = Val(seg) * Val(med)[2] * Val(value)[2]

\* C24: for every fact row, professional or amateur, whose cohort has a row
\* of statistics, fade_ratio is run_sec over the cohort's median run time and
\* implied_bike_if is bike_sec over the cohort's median bike time, each null
\* when the row's duration is missing or the median is missing or not
\* positive.
C24_RatiosOverCohortMedians ==
    (written(fact) /\ written(cohort)) =>
        \A i \in 1..len(fact) : \A n \in StatsOf(i) :
            LET r == rows_of(fact)[i]
                c == rows_of(cohort)[n]
            IN /\ IsOverMedian(r["fade_ratio"], r["run_sec"], c["c_med_run"])
               /\ IsOverMedian(r["implied_bike_if"], r["bike_sec"], c["c_med_bike"])

\* a professional with both values, an amateur without a run time, and rows
\* with a run time in a cohort without a median run time and in a cohort
\* whose median run time is 0
C24_Witness ==
    /\ written(fact) /\ written(cohort)
    /\ \E i \in 1..len(fact) :
          /\ rows_of(fact)[i]["is_pro"] = Cell(TRUE) /\ StatsOf(i) # {}
          /\ rows_of(fact)[i]["fade_ratio"] = Cell(<<4, 5>>)
          /\ notna(rows_of(fact)[i]["implied_bike_if"])
    /\ \E i \in 1..len(fact) :
          /\ rows_of(fact)[i]["is_pro"] = Cell(FALSE) /\ StatsOf(i) # {}
          /\ isna(rows_of(fact)[i]["run_sec"])
          /\ isna(rows_of(fact)[i]["fade_ratio"])
          /\ notna(rows_of(fact)[i]["implied_bike_if"])
    /\ \E i \in 1..len(fact) : \E n \in StatsOf(i) :
          /\ notna(rows_of(fact)[i]["run_sec"])
          /\ isna(rows_of(cohort)[n]["c_med_run"])
          /\ isna(rows_of(fact)[i]["fade_ratio"])
    /\ \E i \in 1..len(fact) : \E n \in StatsOf(i) :
          /\ notna(rows_of(fact)[i]["run_sec"])
          /\ rows_of(cohort)[n]["c_med_run"] = Cell(<<0, 1>>)
          /\ isna(rows_of(fact)[i]["fade_ratio"])

\* the fact rows of identity h
RacesOf(h) == SelectSeq(rows_of(fact), LAMBDA r : r["athlete_hash"] = h)

Disciplines == {<<"swim_strength_z", "swim_sec", "c_med_swim">>,
                <<"bike_strength_z", "bike_sec", "c_med_bike">>,
                <<"run_strength_z", "run_sec", "c_med_run">>}

\* z, a quotient <<numerator, <<"sqrt", radicand>>>>, is the median m of the
\* cohort row c minus the mean of the times vals, over the larger of the
\* cohort's deviation of the totals and STD_FLOOR
IsStrengthZ(z, vals, c, m) ==
    LET numer == z[1]
        under == z[2][2]
        sd2   == Val(c["c_std_total"])[2]
        s     == sum_seq(vals)
        k     == Len(vals)
    IN /\ numer[1] * m[2] * k = (m[1] * k - s * m[2]) * numer[2]
       /\ under[1] >= STD_FLOOR * STD_FLOOR * under[2]
       /\ under = IF sd2[1] < STD_FLOOR * STD_FLOOR * sd2[2]
                  THEN <<STD_FLOOR * STD_FLOOR, 1>> ELSE sd2
       /\ (numer[1] > 0) <=> (s * m[2] < m[1] * k)

RawResultsOf(r) ==
    {i \in 1..len(scraped.coachcox[1]) : rows_of(scraped.coachcox[1])[i]["Name"] = r["athlete_name"]}

RawTristatOf(r) ==
    {i \in 1..len(scraped.tristat) : rows_of(scraped.tristat)[i]["person_name"] = r["athlete_name"]}

IsProDivision(d) ==
    notna(d) /\ \E w \in {<<"M","P","R","O">>, <<"F","P","R","O">>} :
                    /\ Len(Val(d)) = 4
                    /\ \A i \in 1..4 : upper_ch(Val(d)[i]) = w[i]

IsProGroup(g) ==
    notna(g) /\ \E i \in 1..(Len(Val(g)) - 2) :
                    /\ upper_ch(Val(g)[i]) = "P"
                    /\ upper_ch(Val(g)[i + 1]) = "R"
                    /\ upper_ch(Val(g)[i + 2]) = "O"

\* the professional-status rule of the source of record r
FollowsProRule(r) ==
    /\ r["source"] \in {Cell("t100"), Cell("wiki")} => r["is_pro"] = Cell(TRUE)
    /\ r["source"] = Cell("kaggle_df6") => r["is_pro"] = Cell(FALSE)
    /\ r["source"] = Cell("coachcox") =>
          /\ RawResultsOf(r) # {}
          /\ \A i \in RawResultsOf(r) :
                r["is_pro"] = Cell(IsProDivision(rows_of(scraped.coachcox[1])[i]["Division"]))
    /\ r["source"] = Cell("tristat") =>
          /\ RawTristatOf(r) # {}
          /\ \A i \in RawTristatOf(r) :
                r["is_pro"] = Cell(IsProGroup(rows_of(scraped.tristat)[i]["person_event_group"]))

\* C26: every record a processor returned, and every record of the fact
\* table, carries the professional-status flag of its source's rule: t100 and
\* wiki professional, kaggle_df6 amateur, coachcox professional exactly when
\* the division is MPRO or FPRO in any case, tristat professional exactly
\* when the group contains 'PRO' in any case, a missing group being amateur.
C26_ProFlagFollowsSourceRule ==
    /\ \A k \in 1..Len(sources) : \A i \in 1..len(sources[k]) :
          FollowsProRule(rows_of(sources[k])[i])
    /\ written(fact) => \A i \in 1..len(fact) : FollowsProRule(rows_of(fact)[i])

\* the fact table holds records of all five sources, among them a coachcox
\* record whose division contains 'PRO' without being MPRO or FPRO, flagged
\* amateur, and a tristat professional
C26_Witness ==
    /\ written(fact)
    /\ \A s \in {"t100", "wiki", "kaggle_df6", "coachcox", "tristat"} :
          \E i \in 1..len(fact) : rows_of(fact)[i]["source"] = Cell(s)
    /\ \E i \in 1..len(fact) :
          /\ rows_of(fact)[i]["source"] = Cell("coachcox")
          /\ rows_of(fact)[i]["athlete_name"] = Vi
          /\ rows_of(fact)[i]["is_pro"] = Cell(FALSE)
          /\ rows_of(scraped.coachcox[1])[2]["Division"] = txt(<<"P","R","O">>)
    /\ \E i \in 1..len(fact) :
          /\ rows_of(fact)[i]["source"] = Cell("tristat")
          /\ rows_of(fact)[i]["is_pro"] = Cell(TRUE)

\* the SCHEMA columns of a fact row
Canonical(r) == [c \in SeqToSet(SCHEMA) |-> r[c]]

\* the rows the processors returned, in the order of main's list
Returned == concat(sources)

SameDedupKey(a, b) ==
    \A c \in {"source", "athlete_name", "event_year", "total_sec", "gender"} : a[c] = b[c]

\* C27: every row of the written fact table equals, on the 24 SCHEMA columns,
\* a row a processor returned; the rows are in the order the processors
\* returned them, a returned row is absent only when an earlier returned row
\* with the same deduplication key is present, and besides the SCHEMA columns
\* a row has the 8 derived columns only.
C27_CombineKeepsCanonicalFields ==
    (written(fact) /\ Len(sources) = 5) =>
        LET all  == Returned
            kept == [n \in 1..len(fact) |-> Canonical(rows_of(fact)[n])]
            pos  == [n \in 1..len(fact) |->
                        Min({i \in 1..Len(all) : all[i] = kept[n]} \cup {Len(all) + 1})]
        IN /\ \A n \in 1..len(fact) :
                 /\ pos[n] <= Len(all)
                 /\ DOMAIN rows_of(fact)[n] = SeqToSet(SCHEMA) \cup SeqToSet(DERIVED)
           /\ \A n \in 1..(len(fact) - 1) : pos[n] <= pos[n + 1]
           /\ \A i \in 1..Len(all) :
                 \/ \E n \in 1..len(fact) : kept[n] = all[i]
                 \/ \E j \in 1..(i - 1) :
                       /\ SameDedupKey(all[j], all[i])
                       /\ \E n \in 1..len(fact) : kept[n] = all[j]
           /\ len(fact) <= Len(all)

\* the fact table was written from rows of several sources; a duplicate was
\* removed, and rows with and without cohort statistics are present
C27_Witness ==
    /\ written(fact) /\ Len(sources) = 5
    /\ 0 < len(fact) /\ len(fact) < Len(Returned)
    /\ Cardinality({rows_of(fact)[i]["source"] : i \in 1..len(fact)}) >= 3
    /\ \E i \in 1..len(fact) : notna(rows_of(fact)[i]["fade_ratio"])
    /\ \E i \in 1..len(fact) : isna(rows_of(fact)[i]["fade_ratio"])

\* column c of row r of the filtered table is absent or missing
Missing(r, c) == ~has_column(df, c) \/ isna(r[c])

\* every duration of r that is present is acceptable: the total within its
\* bound, each present segment within its bound and between 5% and 65% of
\* the total, each present transition within [0, 1200]
PresentValuesAcceptable(r) ==
    /\ notna(r["total_sec"]) /\ InRange(r["total_sec"], 3300, 68400)
    /\ Missing(r, "swim_sec") \/ (InRange(r["swim_sec"], 300, 9000)
                                  /\ ShareWithinBounds(r["swim_sec"], r["total_sec"]))
    /\ Missing(r, "bike_sec") \/ (InRange(r["bike_sec"], 1800, 36000)
                                  /\ ShareWithinBounds(r["bike_sec"], r["total_sec"]))
    /\ Missing(r, "run_sec") \/ (InRange(r["run_sec"], 600, 25200)
                                 /\ ShareWithinBounds(r["run_sec"], r["total_sec"]))
    /\ Missing(r, "t1_sec") \/ InRange(r["t1_sec"], 0, 1200)
    /\ Missing(r, "t2_sec") \/ InRange(r["t2_sec"], 0, 1200)

TransitionOutOfBounds(r) ==
    \E c \in {"t1_sec", "t2_sec"} : ~Missing(r, c) /\ ~InRange(r[c], 0, 1200)

\* C28: quality_filter keeps every row whose present durations are
\* acceptable, however many of swim, bike, run, t1 and t2 are missing, and
\* rejects every row with a present t1 or t2 outside [0, 1200]; its output
\* has the columns of the input and is the sub-sequence of the input rows
\* that are kept, and filtering the output again returns it unchanged.
C28_MissingKeptTransitionsTested ==
    out # Pending =>
        /\ columns_of(out) = columns_of(df)
        /\ rows_of(out) = SelectSeq(rows_of(df), PresentValuesAcceptable)
        /\ \A i \in 1..len(out) : ~TransitionOutOfBounds(rows_of(out)[i])
        /\ quality_filter(out) = out

\* a table of two rows was filtered: the row without any segment or
\* transition is kept, the row whose only fault is a t1 of 1201 s is not
C28_Witness ==
    /\ out # Pending
    /\ len(df) = 2 /\ len(out) = 1
    /\ \A c \in {"swim_sec", "bike_sec", "run_sec", "t1_sec", "t2_sec"} :
          isna(rows_of(out)[1][c])
    /\ \E i \in 1..2 :
          /\ rows_of(df)[i]["t1_sec"] = Cell(1201)
          /\ PresentValuesAcceptable([rows_of(df)[i] EXCEPT !["t1_sec"] = NaN])

\* C29 as stated: in every profile row dnf_rate lies in [0, 1] and dnf_count
\* is at most the number of the athlete's coachcox rows, whatever the
\* finish_status values of the fact table, missing ones included.
C29_DnfRateWithinUnitInterval ==
    (pc = "done" /\ written(profile)) =>
        \A n \in 1..len(profile) :
            LET rate == Val(rows_of(profile)[n]["dnf_rate"])
            IN /\ rate[2] > 0 /\ 0 <= rate[1] /\ rate[1] <= rate[2]
               /\ Val(rows_of(profile)[n]["dnf_count"]) <= Cardinality(CoachcoxOf(ProfileHash(n)))

\* the part that does hold: dnf_count is between 0 and the number of the
\* athlete's coachcox rows
DnfCountWithinCoachcoxRows ==
    (pc = "done" /\ written(profile)) =>
        \A n \in 1..len(profile) :
            /\ 0 <= Val(rows_of(profile)[n]["dnf_count"])
            /\ Val(rows_of(profile)[n]["dnf_count"]) <= Cardinality(CoachcoxOf(ProfileHash(n)))

\* the position in the returned rows of the first row with the key of r
FirstWithKey(r) == Min({i \in 1..Len(Returned) : SameDedupKey(Returned[i], r)})

\* rows a and b differ in nothing but the source
TwinsOfTwoSources(a, b) ==
    /\ a["source"] # b["source"]
    /\ \A c \in {"athlete_name", "event_year", "total_sec", "gender"} : a[c] = b[c]

\* C30: no two rows of the fact table agree on (source, athlete_name,
\* event_year, total_sec, gender), a null equal to a null; each fact row is
\* the first returned row with its key and every key of a returned row is
\* present, so a row is removed only when an earlier row with its key is
\* kept; rows of different sources are never merged, and rows without a name
\* of one source with equal year, total and gender become one.
C30_FirstOfEachKeyKept ==
    written(fact) =>
        LET all  == Returned
            keys == {<<r["source"], r["athlete_name"], r["event_year"], r["total_sec"],
                       r["gender"]>> : r \in SeqToSet(all)}
        IN /\ \A i \in 1..len(fact) : \A j \in (i + 1)..len(fact) :
                 ~SameDedupKey(rows_of(fact)[i], rows_of(fact)[j])
           /\ \A n \in 1..len(fact) :
                 /\ \E i \in 1..Len(all) : SameDedupKey(all[i], rows_of(fact)[n])
                 /\ Canonical(rows_of(fact)[n]) = all[FirstWithKey(rows_of(fact)[n])]
           /\ len(fact) = Cardinality(keys)
           /\ \A i \in 1..Len(all) : \A j \in 1..Len(all) :
                 TwinsOfTwoSources(all[i], all[j]) =>
                    \E n \in 1..len(fact) : SameDedupKey(rows_of(fact)[n], all[i])

\* of two tristat results without a name that share year, total and gender
\* but not the age group the first is kept and the second is not, and the
\* coachcox result with the same year, total and gender is kept beside it
C30_Witness ==
    /\ written(fact)
    /\ \E i \in 1..Len(Returned) : \E j \in (i + 1)..Len(Returned) :
          /\ SameDedupKey(Returned[i], Returned[j])
          /\ isna(Returned[i]["athlete_name"])
          /\ Returned[i]["age_group"] # Returned[j]["age_group"]
          /\ \E n \in 1..len(fact) : Canonical(rows_of(fact)[n]) = Returned[i]
          /\ \A n \in 1..len(fact) : Canonical(rows_of(fact)[n]) # Returned[j]
          /\ \E n \in 1..len(fact) : TwinsOfTwoSources(rows_of(fact)[n], Returned[i])

====
